---- MODULE Spec2Model ----
(***************************************************************************)
(* Model of NotePublisher (src/src/note_publisher.py): one publish() call  *)
(* driving the note.com editor through Playwright.  The page is the        *)
(* environment: every Playwright call either returns (with a value the     *)
(* environment chooses) or raises, and the model follows the code's        *)
(* try/except structure for each of them.                                  *)
(***************************************************************************)
EXTENDS Integers, Sequences, FiniteSets, TLC

\* ------------------------------------------------------------------ bounds
MaxTags == 2            \* longest Article.tags list explored
MaxButtons == 2         \* most split-point controls on the paid-area page
MaxY == 2               \* largest vertical position of a control / the marker
MaxBlocks == 3          \* most blocks of an article body
MaxInputs == 2          \* most input elements on the publish settings page
MaxArticles == 2        \* largest --count of a process run

\* ------------------------------------------------------- program constants
DEFAULT_PRICE == 300
NumTitleSelectors == 5
NumMarkerPatterns == 3
MaxRounds == 5
NumClickPositions == 3
MinPrice == 100         \* int(value) >= 100 in _set_paid_article
ArgsPrice == 300        \* default of --price in main()

NoPrice == -1           \* price=None passed to __init__
NoBox == -1             \* bounding_box() returned None
PriceArgs == {NoPrice, 0, 100}
TagNames == {"t1", "t2"}
NoTag == "none"

\* stage ranks, in the forward order of the publish flow
NoStage == -1
NoAbort == <<NoStage, "none">>
StSetup == 0
StLogin == 1
StNavigate == 2
StTitle == 3
StBody == 4
StImage == 5
StAdvance == 6
StTags == 7
StPaid == 8
StSplit == 9
StSubmit == 10

VARIABLES
    pc,            \* position inside publish()
    priceArg,      \* price argument of __init__
    price,         \* self.price
    thumb,         \* effective thumbnail: "none" | "missing" | "exists"
    tags,          \* article.tags
    result,        \* "none" | "success" | "failure" | "raised"
    browserOpen,   \* a browser launched by this call is still open
    acts,          \* stage ranks of the page actions performed, in order
                   \* (consecutive actions of one stage are one entry)
    lastShot,      \* file of the most recent screenshot written
    abort,         \* <<stage, cause>> of the aborting failure, or NoAbort;
                   \* cause "control": a required control was not found
    loggedIn,      \* _login returned True
    titleSel,      \* 0 = unresolved, 1..5 = selector that won, 6 = fallback
    iconClicked,   \* icon_clicked in _upload_thumbnail
    menuClicked,   \* the upload menu item was clicked (chooser / crop overlay)
    uploadOK,      \* _upload_thumbnail returned True
    closeRan,      \* _close_modal ran
    tagTyped,      \* tag held by the tag field and not yet confirmed, or NoTag
    tagsEntered,   \* tags confirmed with Enter, in order
    paidToggled,   \* the paid label was clicked
    priceSet,      \* _set_paid_article has overwritten the price input
                   \* (nothing keeps this once the flow has moved on)
    paidAreaOpened,\* the paid-area button was clicked
    splitRan,      \* _select_paid_line_position was called
    lineButtons,   \* y of each split-point control (NoBox if it has no box)
    markerPat,     \* 0 = marker not found, 1..3 = pattern that matched
    markerSeen,    \* first pattern that is_visible() reported visible in the
                   \* round that ended the marker search, 0 = none (and 0
                   \* outside the choice of the button)
    markerY,       \* y of the marker (NoBox if it has no box)
    rounds,        \* marker search rounds started (0 outside the search loop)
    splitClicks,   \* indices of the split-point controls clicked, in order
    submitClicks,  \* clicks on the final submit control: the branch of each
    content,       \* article.content
    thumbPrompt,   \* article.thumbnail_prompt
    typed,         \* text received by page.keyboard.type, Unset before that
    cleaned,       \* _clean_content_for_note(content), Unset before the call
    again,         \* _clean_content_for_note(cleaned), Unset before the call
    pageInputs,    \* value attribute of each input of the publish settings
    backup,        \* an article, the text of its backup file and the article
                   \* post_existing_article reads from that file
                   \* page when _set_paid_article looks at them
    inputsAfter,   \* their values when _set_paid_article returns, Unset before
                   \* that and once the flow has moved on
    loginClicks,   \* clicks on the login button performed by this call
    titleTried,    \* outcomes of the title selectors evaluated by the loop of
                   \* _create_and_publish, in order
    launches,      \* browsers launched by this call
    main           \* the process run of main(), a record:
                   \*   at       position inside main() / create_single_article()
                   \*   article  number of the article being created (i + 1)
                   \*   count    args.count
                   \*   dryRun   args.dry_run
                   \*   written  articles whose backup file has been written
                   \*   files    articles whose backup file exists in output/
                   \*   outcomes result["success"] of the articles handled

inputVars == <<priceArg, price, thumb, tags, content, thumbPrompt, pageInputs,
               backup>>
textVars == <<typed, cleaned, again>>
imageVars == <<iconClicked, menuClicked, uploadOK, closeRan>>
tagVars == <<tagTyped, tagsEntered>>
paidVars == <<paidToggled, priceSet, paidAreaOpened, splitRan>>
splitVars == <<lineButtons, markerPat, markerSeen, markerY, rounds, splitClicks>>
runVars == <<loginClicks, titleTried, inputsAfter, launches>>
vars == <<pc, priceArg, price, thumb, tags, result, browserOpen, acts, lastShot,
          abort, loggedIn, titleSel, iconClicked, menuClicked, uploadOK,
          closeRan, tagTyped, tagsEntered, paidToggled, priceSet,
          paidAreaOpened, splitRan, lineButtons, markerPat, markerSeen, markerY,
          rounds,
          splitClicks, submitClicks, content, thumbPrompt, typed, cleaned,
          again, pageInputs, backup, inputsAfter, loginClicks, titleTried,
          launches,
          main>>

\* ----------------------------------------------------------------- helpers
SeqsUpTo(S, n) == UNION {[1..k -> S] : k \in 0..n}

\* NotePublisher.__init__: self.price
InitPriceOr(a) == IF a # NoPrice /\ a # 0 THEN a ELSE DEFAULT_PRICE
InitPrice(a) == IF a # NoPrice THEN a ELSE DEFAULT_PRICE

\* is_paid_article = self.price and self.price > 0
IsPaid(p) == p # 0 /\ p > 0

\* a page action of stage r is performed; acts keeps one entry per run of
\* consecutive actions of the same stage
Do(r) == acts' = IF acts # <<>> /\ acts[Len(acts)] = r THEN acts ELSE Append(acts, r)
Shot(label) == lastShot' = label

RaiseRetry(r, c) == /\ pc' = "login_goto"
                    /\ abort' = <<r, c>>
\* an exception raised in stage r, of cause c, propagates to the except
\* clause of publish()
Raise(r, c) == /\ pc' = "except"
               /\ abort' = <<r, c>>

ReturnLeaveOpen(val) == /\ pc' = "done"
                        /\ result' = val
                        /\ UNCHANGED browserOpen
\* publish() returns val; the finally clause closes the browser
Return(val) == /\ pc' = "done"
               /\ result' = val
               /\ browserOpen' = FALSE

\* ------------------------------------------------ _clean_content_for_note()
\* A text is a sequence of characters, each the one-character string of
\* itself, except the backquote, which a string of this language cannot hold
NL == "\n"
Backquote == "backquote"
Fence == <<Backquote, Backquote, Backquote>>
\* what str.strip() and \s treat as white space
IsSpace(c) == c \in {" ", "\t", "\n", "\r"}
\* the character class [\s\-:] of the table divider pattern
IsDividerChar(c) == IsSpace(c) \/ c = "-" \/ c = ":"

\* index of the first c in s at or after i, 0 if there is none
RECURSIVE FindFrom(_, _, _)
FindFrom(s, c, i) ==
    IF i > Len(s) THEN 0
    ELSE IF s[i] = c THEN i ELSE FindFrom(s, c, i + 1)

\* number of consecutive c in s starting at i
RECURSIVE RunOf(_, _, _)
RunOf(s, c, i) ==
    IF i > Len(s) \/ s[i] # c THEN 0 ELSE 1 + RunOf(s, c, i + 1)

\* ^ under re.MULTILINE
AtLineStart(s, i) == i = 1 \/ s[i - 1] = NL
StartsWith(s, p) == Len(s) >= Len(p) /\ SubSeq(s, 1, Len(p)) = p

\* str.lstrip(), str.rstrip(), str.strip()
RECURSIVE LStrip(_)
LStrip(s) == IF s # <<>> /\ IsSpace(s[1]) THEN LStrip(Tail(s)) ELSE s
RECURSIVE RStrip(_)
RStrip(s) ==
    IF s # <<>> /\ IsSpace(s[Len(s)]) THEN RStrip(SubSeq(s, 1, Len(s) - 1)) ELSE s
Strip(s) == LStrip(RStrip(s))

\* str.strip('|')
RECURSIVE StripPipes(_)
StripPipes(s) ==
    IF s # <<>> /\ s[1] = "|" THEN StripPipes(Tail(s))
    ELSE IF s # <<>> /\ s[Len(s)] = "|" THEN StripPipes(SubSeq(s, 1, Len(s) - 1))
    ELSE s

\* str.split(c): the pieces of s between the occurrences of c
RECURSIVE SplitOn(_, _)
SplitOn(s, c) ==
    LET j == FindFrom(s, c, 1)
    IN IF j = 0 THEN <<s>>
       ELSE <<SubSeq(s, 1, j - 1)>> \o SplitOn(SubSeq(s, j + 1, Len(s)), c)

\* sep.join(parts)
RECURSIVE Join(_, _)
Join(parts, sep) ==
    IF parts = <<>> THEN <<>>
    ELSE IF Len(parts) = 1 THEN parts[1]
    ELSE parts[1] \o sep \o Join(Tail(parts), sep)

\* re.sub(r'<[^>]+>', '', content), scanning from i
RECURSIVE StripTagsFrom(_, _)
StripTagsFrom(s, i) ==
    IF i > Len(s) THEN <<>>
    ELSE LET j == IF s[i] = "<" THEN FindFrom(s, ">", i + 1) ELSE 0
         IN IF j > i + 1
            THEN StripTagsFrom(s, j + 1)
            ELSE <<s[i]>> \o StripTagsFrom(s, i + 1)
StripTags(s) == StripTagsFrom(s, 1)

\* re.sub(r'\[([^\]]+)\]\([^)]+\)', r'\1', content), scanning from i
RECURSIVE StripLinksFrom(_, _)
StripLinksFrom(s, i) ==
    IF i > Len(s) THEN <<>>
    ELSE LET j == IF s[i] = "[" THEN FindFrom(s, "]", i + 1) ELSE 0
             k == IF j > i + 1 /\ j + 1 <= Len(s) /\ s[j + 1] = "("
                  THEN FindFrom(s, ")", j + 2)
                  ELSE 0
         IN IF k > j + 2
            THEN SubSeq(s, i + 1, j - 1) \o StripLinksFrom(s, k + 1)
            ELSE <<s[i]>> \o StripLinksFrom(s, i + 1)
StripLinks(s) == StripLinksFrom(s, 1)

\* re.sub(r'~~([^~]+)~~', r'\1', content), scanning from i
RECURSIVE StripStrikeFrom(_, _)
StripStrikeFrom(s, i) ==
    IF i > Len(s) THEN <<>>
    ELSE LET j == IF s[i] = "~" /\ i + 1 <= Len(s) /\ s[i + 1] = "~"
                  THEN FindFrom(s, "~", i + 2)
                  ELSE 0
         IN IF j > i + 2 /\ j + 1 <= Len(s) /\ s[j + 1] = "~"
            THEN SubSeq(s, i + 2, j - 1) \o StripStrikeFrom(s, j + 2)
            ELSE <<s[i]>> \o StripStrikeFrom(s, i + 1)
StripStrike(s) == StripStrikeFrom(s, 1)

\* index of the first character of line at or after i that is not in
\* [\s\-:], Len(line) + 1 if there is none
RECURSIVE DividerRunEnd(_, _)
DividerRunEnd(line, i) ==
    IF i > Len(line) \/ ~IsDividerChar(line[i]) THEN i
    ELSE DividerRunEnd(line, i + 1)

\* re.match(r'^\|[\s\-:]+\|', line)
IsDivider(line) ==
    /\ line # <<>>
    /\ line[1] = "|"
    /\ LET j == DividerRunEnd(line, 2)
       IN j >= 3 /\ j <= Len(line) /\ line[j] = "|"

\* line.startswith('|') and line.endswith('|')
IsRow(line) == line # <<>> /\ line[1] = "|" /\ line[Len(line)] = "|"

\* [c.strip() for c in line.strip('|').split('|')]
Cells(line) ==
    LET raw == SplitOn(StripPipes(line), "|")
    IN [n \in DOMAIN raw |-> Strip(raw[n])]

\* f"- {': '.join(cells)}"
BulletOf(cells) == <<"-", " ">> \o Join(cells, <<":", " ">>)

\* the lines appended for a table row: "if cells and cells[0]" guards the append
RowLines(line) ==
    IF Cells(line)[1] # <<>> THEN <<BulletOf(Cells(line))>> ELSE <<>>

\* if re.match(r'^\s*\* ', line): line = re.sub(r'^(\s*)\* ', r'\1- ', line)
StarToDash(line) ==
    LET k == Len(line) - Len(LStrip(line))
    IN IF k + 2 <= Len(line) /\ line[k + 1] = "*" /\ line[k + 2] = " "
       THEN [line EXCEPT ![k + 1] = "-"]
       ELSE line

\* the loop "for line in lines" from line i on, with in_code_block = inCode
RECURSIVE CleanLines(_, _, _)
CleanLines(lines, i, inCode) ==
    IF i > Len(lines) THEN <<>>
    ELSE IF StartsWith(Strip(lines[i]), Fence)
         THEN <<Fence>> \o CleanLines(lines, i + 1, ~inCode)
    ELSE IF inCode
         THEN <<lines[i]>> \o CleanLines(lines, i + 1, inCode)
    ELSE IF IsDivider(lines[i])
         THEN CleanLines(lines, i + 1, inCode)
    ELSE IF IsRow(lines[i])
         THEN RowLines(lines[i]) \o CleanLines(lines, i + 1, inCode)
    ELSE <<StarToDash(lines[i])>> \o CleanLines(lines, i + 1, inCode)

\* lines 172-205: split, the loop, join
ConvertLines(s) == Join(CleanLines(SplitOn(s, NL), 1, FALSE), <<NL>>)

\* re.sub(r'\n---+\n', '\n\n', content), scanning from i
RECURSIVE RemoveRulesFrom(_, _)
RemoveRulesFrom(s, i) ==
    IF i > Len(s) THEN <<>>
    ELSE LET d == IF s[i] = NL THEN RunOf(s, "-", i + 1) ELSE 0
         IN IF d >= 3 /\ i + d + 1 <= Len(s) /\ s[i + d + 1] = NL
            THEN <<NL, NL>> \o RemoveRulesFrom(s, i + d + 2)
            ELSE <<s[i]>> \o RemoveRulesFrom(s, i + 1)
RemoveRules(s) == RemoveRulesFrom(s, 1)

\* re.sub(r'\n{3,}', '\n\n', content), scanning from i
RECURSIVE CollapseLongFrom(_, _)
CollapseLongFrom(s, i) ==
    IF i > Len(s) THEN <<>>
    ELSE LET r == RunOf(s, NL, i)
         IN IF r >= 5
            THEN <<NL, NL>> \o CollapseLongFrom(s, i + r)
            ELSE <<s[i]>> \o CollapseLongFrom(s, i + 1)
RECURSIVE CollapseFrom(_, _)
CollapseFrom(s, i) ==
    IF i > Len(s) THEN <<>>
    ELSE LET r == RunOf(s, NL, i)
         IN IF r >= 3
            THEN <<NL, NL>> \o CollapseFrom(s, i + r)
            ELSE <<s[i]>> \o CollapseFrom(s, i + 1)
CollapseLong(s) == CollapseLongFrom(s, 1)
Collapse(s) == CollapseFrom(s, 1)

\* re.sub(r'^# ([^#])', r'## \1', content, flags=re.MULTILINE), from i
RECURSIVE DemoteH1From(_, _)
DemoteH1From(s, i) ==
    IF i > Len(s) THEN <<>>
    ELSE IF /\ AtLineStart(s, i)
            /\ s[i] = "#"
            /\ i + 2 <= Len(s)
            /\ s[i + 1] = " "
            /\ s[i + 2] # "#"
         THEN <<"#", "#", " ", s[i + 2]>> \o DemoteH1From(s, i + 3)
         ELSE <<s[i]>> \o DemoteH1From(s, i + 1)
DemoteH1(s) == DemoteH1From(s, 1)

\* re.sub(r'^####+ ', '### ', content, flags=re.MULTILINE), from i
RECURSIVE DemoteDeepFrom(_, _)
DemoteDeepFrom(s, i) ==
    IF i > Len(s) THEN <<>>
    ELSE LET h == IF AtLineStart(s, i) THEN RunOf(s, "#", i) ELSE 0
         IN IF h >= 4 /\ i + h <= Len(s) /\ s[i + h] = " "
            THEN <<"#", "#", "#", " ">> \o DemoteDeepFrom(s, i + h + 1)
            ELSE <<s[i]>> \o DemoteDeepFrom(s, i + 1)
DemoteDeep(s) == DemoteDeepFrom(s, 1)

\* re.sub(r'([^\n])\n(#{2,3} )', r'\1\n\n\2', content), from i
RECURSIVE HeadingGapFrom(_, _)
HeadingGapFrom(s, i) ==
    IF i > Len(s) THEN <<>>
    ELSE LET h == IF s[i] # NL /\ i + 1 <= Len(s) /\ s[i + 1] = NL
                  THEN RunOf(s, "#", i + 2)
                  ELSE 0
         IN IF h \in {2, 3} /\ i + 2 + h <= Len(s) /\ s[i + 2 + h] = " "
            THEN <<s[i], NL, NL>> \o SubSeq(s, i + 2, i + 2 + h)
                     \o HeadingGapFrom(s, i + 3 + h)
            ELSE <<s[i]>> \o HeadingGapFrom(s, i + 1)
HeadingGap(s) == HeadingGapFrom(s, 1)

\* re.sub(r'([^\n-\n])\n(- )', r'\1\n\n\2', content), from i; the class
\* [^\n-\n] is "any character but a newline"
RECURSIVE BulletGapFrom(_, _)
BulletGapFrom(s, i) ==
    IF i > Len(s) THEN <<>>
    ELSE IF /\ s[i] # NL
            /\ i + 3 <= Len(s)
            /\ s[i + 1] = NL
            /\ s[i + 2] = "-"
            /\ s[i + 3] = " "
         THEN <<s[i], NL, NL, "-", " ">> \o BulletGapFrom(s, i + 4)
         ELSE <<s[i]>> \o BulletGapFrom(s, i + 1)
BulletGap(s) == BulletGapFrom(s, 1)

\* re.sub(r'(^- .+)\n\n(?=- )', r'\1\n', content, flags=re.MULTILINE), from i
RECURSIVE BulletTightenFrom(_, _)
BulletTightenFrom(s, i) ==
    IF i > Len(s) THEN <<>>
    ELSE LET e == IF /\ AtLineStart(s, i)
                     /\ s[i] = "-"
                     /\ i + 1 <= Len(s)
                     /\ s[i + 1] = " "
                  THEN FindFrom(s, NL, i + 2)
                  ELSE 0
         IN IF /\ e > i + 2
               /\ e + 3 <= Len(s)
               /\ s[e + 1] = NL
               /\ s[e + 2] = "-"
               /\ s[e + 3] = " "
            THEN SubSeq(s, i, e) \o BulletTightenFrom(s, e + 2)
            ELSE <<s[i]>> \o BulletTightenFrom(s, i + 1)
BulletTighten(s) == BulletTightenFrom(s, 1)

\* _clean_content_for_note(content): the steps in the order of the code
Clean(s) ==
    Collapse(Strip(BulletTighten(BulletGap(HeadingGap(DemoteDeep(DemoteH1(
        Collapse(RemoveRules(ConvertLines(StripStrike(StripLinks(
            StripTags(s)))))))))))))

\* -------------------------------------------- the text typed into the body
\* "\n\n## Thumbnail Prompt (for Whisk)\n"
PromptHeading ==
    <<NL, NL, "#", "#", " ", "T", "h", "u", "m", "b", "n", "a", "i", "l", " ",
      "P", "r", "o", "m", "p", "t", " ", "(", "f", "o", "r", " ",
      "W", "h", "i", "s", "k", ")", NL>>

\* lines 311-317: the content handed to _type_content
ComposeBodyNoStrip(body, prompt) ==
    IF prompt # <<>> THEN body \o PromptHeading \o prompt ELSE body
ComposeBody(body, prompt) ==
    IF prompt # <<>> THEN RStrip(body) \o PromptHeading \o prompt ELSE body

\* _type_content: what page.keyboard.type receives
TypedText(body, prompt) == Clean(ComposeBody(body, prompt))

\* the value of a text variable that has not been assigned
Unset == <<"unset">>
\* the inputs of the publish settings page in the runs of the publish flow:
\* an empty text input and the price input with its default
SampleInputs == << <<>>, <<"5", "0", "0">> >>
\* main() is inside its only call of publish(), for the first article, whose
\* backup file has been written
OneCall == [at |-> "publishing", article |-> 1, count |-> 1, dryRun |-> FALSE,
            written |-> {1}, files |-> {1}, outcomes |-> <<>>,
            custom |-> FALSE, posted |-> <<>>, topic |-> "u1",
            lastFailed |-> "none",
            isFree |-> FALSE, succ |-> 0, fail |-> 0, exit |-> "running",
            crash |-> "none"]
\* no backup file is being written or read
NoBackup == [at |-> "idle"]
\* the article body of the runs of the publish flow
SampleBody == <<"a", NL, "#", " ", "b">>

Init ==
    /\ pc = "launch"
    /\ content = SampleBody
    /\ thumbPrompt = <<>>
    /\ typed = Unset
    /\ cleaned = Unset
    /\ again = Unset
    /\ priceArg \in PriceArgs
    /\ price = InitPrice(priceArg)
    /\ thumb \in {"none", "missing", "exists"}
    /\ tags \in SeqsUpTo(TagNames, MaxTags)
    /\ result = "none"
    /\ browserOpen = FALSE
    /\ acts = <<>>
    /\ lastShot = "none"
    /\ abort = NoAbort
    /\ loggedIn = FALSE
    /\ titleSel = 0
    /\ iconClicked = FALSE
    /\ menuClicked = FALSE
    /\ uploadOK = FALSE
    /\ closeRan = FALSE
    /\ tagsEntered = <<>>
    /\ tagTyped = NoTag
    /\ paidToggled = FALSE
    /\ priceSet = FALSE
    /\ paidAreaOpened = FALSE
    /\ splitRan = FALSE
    /\ lineButtons = <<>>
    /\ markerPat = 0
    /\ markerSeen = 0
    /\ markerY = NoBox
    /\ rounds = 0
    /\ splitClicks = <<>>
    /\ submitClicks = <<>>
    /\ inputsAfter = Unset
    /\ loginClicks = 0
    /\ titleTried = <<>>
    /\ launches = 0
    /\ pageInputs = SampleInputs
    /\ backup = NoBackup
    /\ main = OneCall

\* ------------------------------------------------------- publish(): set-up
\* p.chromium.launch(...): outside the try block
Launch ==
    /\ pc = "launch"
    /\ \E ok \in BOOLEAN :
        IF ok
        THEN /\ pc' = "newpage"
             /\ browserOpen' = TRUE
             /\ launches' = launches + 1
             /\ UNCHANGED <<result, abort>>
        ELSE /\ pc' = "done"
             /\ result' = "raised"
             /\ abort' = <<StSetup, "other">>
             /\ UNCHANGED <<browserOpen, launches>>
    /\ UNCHANGED <<inputVars, textVars, loginClicks, titleTried, inputsAfter,
                   main, acts, lastShot, loggedIn, titleSel, imageVars,
                   tagVars, paidVars, splitVars, submitClicks>>

\* browser.new_context / new_page / add_init_script: outside the try block;
\* leaving the sync_playwright() context stops the driver and its browser
NewPage ==
    /\ pc = "newpage"
    /\ \E ok \in BOOLEAN :
        IF ok
        THEN /\ pc' = "login_goto"
             /\ UNCHANGED <<result, abort, browserOpen>>
        ELSE /\ pc' = "done"
             /\ result' = "raised"
             /\ abort' = <<StSetup, "other">>
             /\ browserOpen' = FALSE
    /\ UNCHANGED <<inputVars, textVars, runVars, main, acts, lastShot, loggedIn, titleSel, imageVars,
                   tagVars, paidVars, splitVars, submitClicks>>

\* except Exception: page.screenshot(error_screenshot); return False;
\* finally: browser.close()
PublishExcept ==
    /\ pc = "except"
    /\ \E shotOk \in BOOLEAN :
        IF shotOk
        THEN /\ Shot("error_screenshot")
             /\ Return("failure")
        ELSE /\ Return("raised")
             /\ UNCHANGED lastShot
    /\ UNCHANGED <<inputVars, textVars, runVars, main, acts, abort, loggedIn, titleSel, imageVars,
                   tagVars, paidVars, splitVars, submitClicks>>

\* --------------------------------------------------------------- _login()
\* page.goto(LOGIN_URL); wait_for_load_state
LoginGoto ==
    /\ pc = "login_goto"
    /\ \E ok \in BOOLEAN :
        IF ok
        THEN /\ pc' = "login_shot"
             /\ Do(StLogin)
             /\ UNCHANGED abort
        ELSE /\ Raise(StLogin, "other")
             /\ UNCHANGED acts
    /\ UNCHANGED <<inputVars, textVars, runVars, main, result, browserOpen, lastShot, loggedIn, titleSel,
                   imageVars, tagVars, paidVars, splitVars, submitClicks>>

\* page.screenshot(debug_login_page): not inside a try block
LoginShot ==
    /\ pc = "login_shot"
    /\ \E ok \in BOOLEAN :
        IF ok
        THEN /\ pc' = "login_email"
             /\ Shot("debug_login_page")
             /\ UNCHANGED abort
        ELSE /\ Raise(StLogin, "capture")
             /\ UNCHANGED lastShot
    /\ UNCHANGED <<inputVars, textVars, runVars, main, result, browserOpen, acts, loggedIn, titleSel,
                   imageVars, tagVars, paidVars, splitVars, submitClicks>>

\* one try block of _login: a field is waited for and filled (or the button
\* clicked); on an exception a screenshot is taken and _login returns False,
\* so publish() returns False
LoginField(at, next, label) ==
    /\ pc = at
    /\ \E o \in {"ok", "fail", "failshot"} :
        CASE o = "ok" ->
               /\ pc' = next
               /\ Do(StLogin)
               /\ UNCHANGED <<lastShot, abort, result, browserOpen>>
          [] o = "fail" ->
               /\ Shot(label)
               /\ abort' = <<StLogin, "other">>
               /\ Return("failure")
               /\ UNCHANGED acts
          [] o = "failshot" ->
               /\ Raise(StLogin, "capture")
               /\ UNCHANGED <<lastShot, acts, result, browserOpen>>
    /\ UNCHANGED <<inputVars, textVars, titleTried, inputsAfter, launches,
                   main, loggedIn, titleSel, imageVars, tagVars,
                   paidVars, splitVars, submitClicks>>

LoginEmail ==
    /\ LoginField("login_email", "login_password", "debug_email_error")
    /\ UNCHANGED loginClicks
LoginPassword ==
    /\ LoginField("login_password", "login_button", "debug_password_error")
    /\ UNCHANGED loginClicks
\* login_button.click(): the one place where the login form is submitted
LoginButton ==
    /\ LoginField("login_button", "login_wait", "debug_login_button_error")
    /\ loginClicks' = IF pc' = "login_wait" THEN loginClicks + 1 ELSE loginClicks

LoginWaitRetry ==
    /\ pc = "login_wait"
    /\ \E o \in {"ok", "fail", "failshot"} :
        CASE o = "ok" ->
               /\ pc' = "nav_goto"
               /\ loggedIn' = TRUE
               /\ Shot("debug_after_login")
               /\ UNCHANGED <<abort, result, browserOpen>>
          [] o = "fail" ->
               /\ Shot("debug_login_failed")
               /\ pc' = "login_button"
               /\ UNCHANGED <<loggedIn, abort, result, browserOpen>>
          [] o = "failshot" ->
               /\ Raise(StLogin, "capture")
               /\ UNCHANGED <<lastShot, loggedIn, result, browserOpen>>
    /\ UNCHANGED <<inputVars, textVars, runVars, main, acts, titleSel, imageVars, tagVars,
                   paidVars, splitVars, submitClicks>>
\* page.wait_for_url; page.screenshot(debug_after_login) inside the same try
LoginWait ==
    /\ pc = "login_wait"
    /\ \E o \in {"ok", "fail", "failshot"} :
        CASE o = "ok" ->
               /\ pc' = "nav_goto"
               /\ loggedIn' = TRUE
               /\ Shot("debug_after_login")
               /\ UNCHANGED <<abort, result, browserOpen>>
          [] o = "fail" ->
               /\ Shot("debug_login_failed")
               /\ abort' = <<StLogin, "other">>
               /\ Return("failure")
               /\ UNCHANGED loggedIn
          [] o = "failshot" ->
               /\ Raise(StLogin, "capture")
               /\ UNCHANGED <<lastShot, loggedIn, result, browserOpen>>
    /\ UNCHANGED <<inputVars, textVars, runVars, main, acts, titleSel, imageVars, tagVars,
                   paidVars, splitVars, submitClicks>>

\* ---------------------------------------------------- _create_and_publish()
\* page.goto(NEW_TEXT_URL); wait_for_load_state
NavGoto ==
    /\ pc = "nav_goto"
    /\ \E ok \in BOOLEAN :
        IF ok
        THEN /\ pc' = "nav_shot"
             /\ Do(StNavigate)
             /\ UNCHANGED abort
        ELSE /\ Raise(StNavigate, "other")
             /\ UNCHANGED acts
    /\ UNCHANGED <<inputVars, textVars, runVars, main, result, browserOpen, lastShot, loggedIn, titleSel,
                   imageVars, tagVars, paidVars, splitVars, submitClicks>>

\* page.screenshot(debug_new_article_page): not inside a try block
NavShot ==
    /\ pc = "nav_shot"
    /\ \E ok \in BOOLEAN :
        IF ok
        THEN /\ pc' = "nav_url"
             /\ Shot("debug_new_article_page")
             /\ UNCHANGED abort
        ELSE /\ Raise(StNavigate, "capture")
             /\ UNCHANGED lastShot
    /\ UNCHANGED <<inputVars, textVars, runVars, main, result, browserOpen, acts, loggedIn, titleSel,
                   imageVars, tagVars, paidVars, splitVars, submitClicks>>

\* if "login" in current_url.lower(): screenshot; return False
NavUrlCheck ==
    /\ pc = "nav_url"
    /\ \E o \in {"editor", "login", "loginshot"} :
        CASE o = "editor" ->
               /\ pc' = "title_resolve"
               /\ UNCHANGED <<lastShot, abort, result, browserOpen>>
          [] o = "login" ->
               /\ Shot("debug_redirected_to_login")
               /\ abort' = <<StNavigate, "redirect">>
               /\ Return("failure")
          [] o = "loginshot" ->
               /\ Raise(StNavigate, "redirect_capture")
               /\ UNCHANGED <<lastShot, result, browserOpen>>
    /\ UNCHANGED <<inputVars, textVars, runVars, main, acts, loggedIn, titleSel, imageVars,
                   tagVars, paidVars, splitVars, submitClicks>>

\* the first selector, in list order, whose locator has a match that becomes
\* visible; 0 when every selector has no match or raises
LastVisible(o) ==
    IF \E i \in DOMAIN o : o[i] = "visible"
    THEN CHOOSE i \in DOMAIN o :
            /\ o[i] = "visible"
            /\ \A j \in DOMAIN o : o[j] = "visible" => i >= j
    ELSE 0
FirstVisible(o) ==
    IF \E i \in DOMAIN o : o[i] = "visible"
    THEN CHOOSE i \in DOMAIN o :
            /\ o[i] = "visible"
            /\ \A j \in DOMAIN o : o[j] = "visible" => i <= j
    ELSE 0

\* for selector in title_selectors: count() > 0, wait_for(visible), break.
\* o is what each selector would give; the loop evaluates them in list order
\* up to the one that wins
TitleResolve ==
    /\ pc = "title_resolve"
    /\ \E o \in [1..NumTitleSelectors -> {"nomatch", "timeout", "visible"}] :
        /\ titleSel' = FirstVisible(o)
        /\ titleTried' = SubSeq(o, 1, IF FirstVisible(o) # 0 THEN FirstVisible(o)
                                       ELSE NumTitleSelectors)
        /\ pc' = IF FirstVisible(o) # 0 THEN "title_fill" ELSE "title_fallback"
    /\ UNCHANGED <<inputVars, textVars, loginClicks, inputsAfter, launches,
                   main, result, browserOpen, acts, lastShot, abort,
                   loggedIn, imageVars, tagVars, paidVars, splitVars,
                   submitClicks>>

\* if not title_input: screenshot (outside try); first textarea of the page;
\* if still not title_input: return False
TitleFallback ==
    /\ pc = "title_fallback"
    /\ \E o \in {"found", "notfound", "shotfail"} :
        CASE o = "found" ->
               /\ Shot("debug_title_not_found")
               /\ titleSel' = NumTitleSelectors + 1
               /\ pc' = "title_fill"
               /\ UNCHANGED <<abort, result, browserOpen, titleTried>>
          [] o = "notfound" ->
               /\ Shot("debug_title_not_found")
               /\ abort' = <<StTitle, "control">>
               /\ Return("failure")
               /\ titleTried' = <<>>
               /\ UNCHANGED titleSel
          [] o = "shotfail" ->
               /\ Raise(StTitle, "capture")
               /\ titleTried' = <<>>
               /\ UNCHANGED <<lastShot, titleSel, result, browserOpen>>
    /\ UNCHANGED <<inputVars, textVars, loginClicks, inputsAfter, launches,
                   main, acts, loggedIn, imageVars, tagVars,
                   paidVars, splitVars, submitClicks>>

\* a page call outside any inner try block: it either succeeds, performing a
\* page action of stage r, or raises up to publish()
PageStep(at, next, r, c) ==
    /\ pc = at
    /\ \E ok \in BOOLEAN :
        IF ok
        THEN /\ pc' = next
             /\ Do(r)
             /\ UNCHANGED abort
        ELSE /\ Raise(r, c)
             /\ UNCHANGED acts

\* title_input.fill(article.title); title_input is not used afterwards
TitleFill ==
    /\ PageStep("title_fill", "body_click", StTitle, "other")
    /\ titleSel' = 0
    /\ titleTried' = <<>>
    /\ UNCHANGED <<inputVars, textVars, loginClicks, inputsAfter, launches,
                   main, result, browserOpen, lastShot, loggedIn,
                   imageVars, tagVars, paidVars, splitVars, submitClicks>>

\* body_area = page.locator('.ProseMirror').first; body_area.click()
BodyClick ==
    /\ PageStep("body_click", "body_type", StBody, "control")
    /\ UNCHANGED <<inputVars, textVars, runVars, main, result, browserOpen, lastShot, loggedIn, titleSel,
                   imageVars, tagVars, paidVars, splitVars, submitClicks>>

\* self._type_content(page, content): typed is what keyboard.type has
\* received once it returned; then "if thumbnail_path:"
BodyType ==
    /\ PageStep("body_type",
                IF thumb # "none" THEN "img_exists" ELSE "advance_scroll",
                StBody, "other")
    /\ typed' = IF pc' = "except" THEN typed ELSE TypedText(content, thumbPrompt)
    /\ UNCHANGED <<inputVars, cleaned, again, runVars, main, result, browserOpen, lastShot, loggedIn, titleSel,
                   imageVars, tagVars, paidVars, splitVars, submitClicks>>

\* ------------------------------------------------------ _upload_thumbnail()
\* _upload_thumbnail returns to _create_and_publish (its value is only printed)
ImageReturn == pc' = "advance_scroll"

\* _close_modal(): every call is inside try/except-pass, it never raises
CloseModal ==
    /\ closeRan' = TRUE
    /\ \E pressed \in BOOLEAN : IF pressed THEN Do(StImage) ELSE UNCHANGED acts

\* if not os.path.exists(thumbnail_path): return False
ImgExists ==
    /\ pc = "img_exists"
    /\ IF thumb = "missing" THEN ImageReturn ELSE pc' = "img_scroll"
    /\ UNCHANGED <<inputVars, textVars, runVars, main, result, browserOpen, acts, lastShot, abort,
                   loggedIn, titleSel, imageVars, tagVars, paidVars,
                   splitVars, submitClicks>>

\* page.evaluate("window.scrollTo(0, 0)")
ImgScroll ==
    /\ pc = "img_scroll"
    /\ \E ok \in BOOLEAN : pc' = IF ok THEN "img_esc" ELSE "img_except"
    /\ UNCHANGED <<inputVars, textVars, runVars, main, result, browserOpen, acts, lastShot, abort,
                   loggedIn, titleSel, imageVars, tagVars, paidVars,
                   splitVars, submitClicks>>

\* try: page.keyboard.press("Escape") except: pass
ImgEscape ==
    /\ pc = "img_esc"
    /\ pc' = "img_m1"
    /\ \E pressed \in BOOLEAN : IF pressed THEN Do(StImage) ELSE UNCHANGED acts
    /\ UNCHANGED <<inputVars, textVars, runVars, main, result, browserOpen, lastShot, abort, loggedIn,
                   titleSel, imageVars, tagVars, paidVars, splitVars,
                   submitClicks>>

\* method 1: the first eyecatch selector that is visible is clicked;
\* an exception for one selector moves on to the next one
ImgMethod1 ==
    /\ pc = "img_m1"
    /\ \E clicked \in BOOLEAN :
        IF clicked
        THEN /\ iconClicked' = TRUE
             /\ Do(StImage)
             /\ pc' = "img_shot"
        ELSE /\ pc' = "img_m2"
             /\ UNCHANGED <<iconClicked, acts>>
    /\ UNCHANGED <<inputVars, textVars, runVars, main, result, browserOpen, lastShot, abort, loggedIn,
                   titleSel, menuClicked, uploadOK, closeRan, tagVars,
                   paidVars, splitVars, submitClicks>>

\* method 2: elements above the title field are listed by a script and one
\* of them is clicked by coordinates
ImgMethod2 ==
    /\ pc = "img_m2"
    /\ \E o \in {"clicked", "nothing", "raise"} :
        CASE o = "clicked" ->
               /\ iconClicked' = TRUE
               /\ Do(StImage)
               /\ pc' = "img_shot"
          [] o = "nothing" ->
               /\ pc' = "img_m3"
               /\ UNCHANGED <<iconClicked, acts>>
          [] o = "raise" ->
               /\ pc' = "img_except"
               /\ UNCHANGED <<iconClicked, acts>>
    /\ UNCHANGED <<inputVars, textVars, runVars, main, result, browserOpen, lastShot, abort, loggedIn,
                   titleSel, menuClicked, uploadOK, closeRan, tagVars,
                   paidVars, splitVars, submitClicks>>

\* method 3: up to three positions above the title are clicked until the
\* upload menu shows; n = clicks performed
ImgMethod3 ==
    /\ pc = "img_m3"
    /\ \E n \in 0..NumClickPositions, o \in {"menu", "nomenu", "raise"} :
        /\ o = "menu" => n >= 1
        /\ o = "nomenu" => n \in {0, NumClickPositions}
        /\ IF n >= 1 THEN Do(StImage) ELSE UNCHANGED acts
        /\ iconClicked' = (o = "menu")
        /\ pc' = IF o = "raise" THEN "img_except" ELSE "img_shot"
    /\ UNCHANGED <<inputVars, textVars, runVars, main, result, browserOpen, lastShot, abort, loggedIn,
                   titleSel, menuClicked, uploadOK, closeRan, tagVars,
                   paidVars, splitVars, submitClicks>>

\* page.screenshot(debug_thumbnail_menu)
ImgShot ==
    /\ pc = "img_shot"
    /\ \E ok \in BOOLEAN :
        IF ok
        THEN /\ Shot("debug_thumbnail_menu")
             /\ pc' = "img_menu"
        ELSE /\ pc' = "img_except"
             /\ UNCHANGED lastShot
    /\ UNCHANGED <<inputVars, textVars, runVars, main, result, browserOpen, acts, abort, loggedIn,
                   titleSel, imageVars, tagVars, paidVars, splitVars,
                   submitClicks>>

\* if upload_menu.count() > 0 and upload_menu.first.is_visible(): ...
\* else: screenshot(debug_thumbnail_no_menu); return False
ImgMenu ==
    /\ pc = "img_menu"
    /\ \E o \in {"visible", "nomenu", "raise"} :
        CASE o = "visible" ->
               /\ pc' = "img_choose"
               /\ UNCHANGED lastShot
          [] o = "nomenu" ->
               /\ Shot("debug_thumbnail_no_menu")
               /\ ImageReturn
          [] o = "raise" ->
               /\ pc' = "img_except"
               /\ UNCHANGED lastShot
    /\ UNCHANGED <<inputVars, textVars, runVars, main, result, browserOpen, acts, abort, loggedIn,
                   titleSel, imageVars, tagVars, paidVars, splitVars,
                   submitClicks>>

\* with page.expect_file_chooser(): upload_menu.first.click();
\* file_chooser.set_files(...); page.screenshot(debug_thumbnail_crop)
ImgChoose ==
    /\ pc = "img_choose"
    /\ \E o \in {"ok", "clickfail", "laterfail"} :
        CASE o = "ok" ->
               /\ menuClicked' = TRUE
               /\ Do(StImage)
               /\ Shot("debug_thumbnail_crop")
               /\ pc' = "img_save1"
          [] o = "clickfail" ->
               /\ pc' = "img_except"
               /\ UNCHANGED <<menuClicked, acts, lastShot>>
          [] o = "laterfail" ->
               /\ menuClicked' = TRUE
               /\ Do(StImage)
               /\ pc' = "img_except"
               /\ UNCHANGED lastShot
    /\ UNCHANGED <<inputVars, textVars, runVars, main, result, browserOpen, abort, loggedIn,
                   titleSel, iconClicked, uploadOK, closeRan, tagVars,
                   paidVars, splitVars, submitClicks>>

\* one attempt at the crop overlay's save button: it is clicked and
\* _upload_thumbnail returns True, or the attempt finds nothing / raises
\* (swallowed) and the next attempt follows
ImgSave(at, next) ==
    /\ pc = at
    /\ \E clicked \in BOOLEAN :
        IF clicked
        THEN /\ uploadOK' = TRUE
             /\ Do(StImage)
             /\ ImageReturn
        ELSE /\ pc' = next
             /\ UNCHANGED <<uploadOK, acts>>
    /\ UNCHANGED <<inputVars, textVars, runVars, main, result, browserOpen, lastShot, abort, loggedIn,
                   titleSel, iconClicked, menuClicked, closeRan, tagVars,
                   paidVars, splitVars, submitClicks>>

ImgSave1 == ImgSave("img_save1", "img_save2")
ImgSave2 == ImgSave("img_save2", "img_save3")
ImgSave3 == ImgSave("img_save3", "img_close")

\* save button never clicked: self._close_modal(page); return False
ImgClose ==
    /\ pc = "img_close"
    /\ CloseModal
    /\ ImageReturn
    /\ UNCHANGED <<inputVars, textVars, runVars, main, result, browserOpen, lastShot, abort, loggedIn,
                   titleSel, iconClicked, menuClicked, uploadOK, tagVars,
                   paidVars, splitVars, submitClicks>>

ImgExceptEscapes ==
    /\ pc = "img_except"
    /\ \E shotOk \in BOOLEAN :
        IF shotOk
        THEN /\ Shot("error_thumbnail_upload")
             /\ CloseModal
             /\ ImageReturn
             /\ UNCHANGED abort
        ELSE /\ Raise(StImage, "capture")
             /\ UNCHANGED <<lastShot, closeRan, acts>>
    /\ UNCHANGED <<inputVars, textVars, runVars, main, result, browserOpen, loggedIn, titleSel,
                   iconClicked, menuClicked, uploadOK, tagVars, paidVars,
                   splitVars, submitClicks>>

\* except Exception: screenshot(error_thumbnail_upload); _close_modal();
\* return False.  If the screenshot raises, the exception leaves
\* _upload_thumbnail and is swallowed by the try block of the caller
ImgExcept ==
    /\ pc = "img_except"
    /\ \E shotOk \in BOOLEAN :
        IF shotOk
        THEN /\ Shot("error_thumbnail_upload")
             /\ CloseModal
        ELSE UNCHANGED <<lastShot, closeRan, acts>>
    /\ ImageReturn
    /\ UNCHANGED <<inputVars, textVars, runVars, main, result, browserOpen, abort, loggedIn,
                   titleSel, iconClicked, menuClicked, uploadOK, tagVars,
                   paidVars, splitVars, submitClicks>>

\* ------------------------------------- advance to the publish settings, tags
\* where _create_and_publish goes after the tags: the paid settings or the
\* final submit of the free flow
AfterTags == IF IsPaid(price) THEN "paid_toggle" ELSE "submit_free"
\* if article.tags: self._input_tags(...)
AfterAdvance == IF tags # <<>> THEN "tags" ELSE AfterTags

\* page.evaluate("window.scrollTo(0, 0)") before the advance button; the
\* locals of _upload_thumbnail are gone by now
AdvanceScroll ==
    /\ pc = "advance_scroll"
    /\ \E ok \in BOOLEAN :
        IF ok
        THEN /\ pc' = "advance_click"
             /\ UNCHANGED abort
        ELSE Raise(StAdvance, "other")
    /\ iconClicked' = FALSE
    /\ menuClicked' = FALSE
    /\ uploadOK' = FALSE
    /\ closeRan' = FALSE
    /\ UNCHANGED <<inputVars, textVars, runVars, main, result, browserOpen, acts, lastShot, loggedIn,
                   titleSel, tagVars, paidVars, splitVars, submitClicks>>

\* page.locator('button:has-text("公開に進む")').click()
AdvanceClick ==
    /\ PageStep("advance_click", AfterAdvance, StAdvance, "control")
    /\ UNCHANGED <<inputVars, textVars, runVars, main, result, browserOpen, lastShot, loggedIn, titleSel,
                   imageVars, tagVars, paidVars, splitVars, submitClicks>>

\* for tag in tags: the tag of the iteration that follows the confirmed ones
NextTagReversed(tgs, entered) == tgs[Len(tgs) - Len(entered)]
NextTag(tgs, entered) == tgs[Len(entered) + 1]

\* _input_tags, first half of an iteration: tag_input.click();
\* tag_input.fill(tag).  No try block: an exception leaves _input_tags and
\* _create_and_publish
TagFill ==
    /\ pc = "tags"
    /\ Len(tagsEntered) < Len(tags)
    /\ \E o \in {"ok", "clickfail", "fillfail"} :
        CASE o = "ok" ->
               /\ tagTyped' = NextTag(tags, tagsEntered)
               /\ Do(StTags)
               /\ pc' = "tag_enter"
               /\ UNCHANGED abort
          [] o = "clickfail" ->
               /\ Raise(StTags, "other")
               /\ UNCHANGED <<tagTyped, acts>>
          [] o = "fillfail" ->
               /\ Raise(StTags, "other")
               /\ Do(StTags)
               /\ UNCHANGED tagTyped
    /\ UNCHANGED <<inputVars, textVars, runVars, main, result, browserOpen, lastShot, loggedIn, titleSel,
                   imageVars, tagsEntered, paidVars, splitVars, submitClicks>>

\* _input_tags, second half: page.keyboard.press("Enter") confirms what the
\* tag field holds; the next fill() overwrites the field in any case
TagEnter ==
    /\ pc = "tag_enter"
    /\ \E ok \in BOOLEAN :
        IF ok
        THEN /\ tagsEntered' = Append(tagsEntered, tagTyped)
             /\ tagTyped' = NoTag
             /\ pc' = IF Len(tagsEntered) + 1 = Len(tags) THEN AfterTags ELSE "tags"
             /\ UNCHANGED abort
        ELSE /\ Raise(StTags, "other")
             /\ UNCHANGED <<tagsEntered, tagTyped>>
    /\ UNCHANGED <<inputVars, textVars, runVars, main, result, browserOpen, acts, lastShot, loggedIn,
                   titleSel, imageVars, paidVars, splitVars, submitClicks>>

\* -------------------------------------------------------- _set_paid_article()
\* paid_label = page.locator('text="有料"').first; paid_label.click()
PaidToggle ==
    /\ PageStep("paid_toggle", "paid_price", StPaid, "other")
    /\ paidToggled' = (pc' = "paid_price")
    /\ UNCHANGED <<inputVars, textVars, runVars, main, result, browserOpen, lastShot, loggedIn, titleSel,
                   imageVars, tagVars, priceSet, paidAreaOpened, splitRan,
                   splitVars, submitClicks>>

\* the value attribute of an input: None, or a text
NoValue == <<"None">>
DigitChars == <<"0", "1", "2", "3", "4", "5", "6", "7", "8", "9">>
\* str.isdigit()
IsDigit(c) == \E d \in DOMAIN DigitChars : DigitChars[d] = c
IsDigits(v) == v # <<>> /\ \A i \in DOMAIN v : IsDigit(v[i])
DigitOf(c) == (CHOOSE d \in DOMAIN DigitChars : DigitChars[d] = c) - 1
\* int(value) of a text of digits
RECURSIVE IntOf(_)
IntOf(v) ==
    IF v = <<>> THEN 0
    ELSE 10 * IntOf(SubSeq(v, 1, Len(v) - 1)) + DigitOf(v[Len(v)])
\* str(price) of a price >= 0
RECURSIVE StrOf(_)
StrOf(n) ==
    IF n < 10 THEN <<DigitChars[n + 1]>>
    ELSE StrOf(n \div 10) \o <<DigitChars[(n % 10) + 1]>>
\* if value and value.isdigit() and int(value) >= 100
Plausible(v) == v # NoValue /\ v # <<>> /\ IsDigits(v) /\ IntOf(v) >= MinPrice
\* for inp in inputs: ... break: the input the loop stops at, 0 if it runs
\* to the end
LastPlausible(vals) ==
    IF \E i \in DOMAIN vals : Plausible(vals[i])
    THEN CHOOSE i \in DOMAIN vals :
            /\ Plausible(vals[i])
            /\ \A j \in DOMAIN vals : Plausible(vals[j]) => i >= j
    ELSE 0
FirstPlausible(vals) ==
    IF \E i \in DOMAIN vals : Plausible(vals[i])
    THEN CHOOSE i \in DOMAIN vals :
            /\ Plausible(vals[i])
            /\ \A j \in DOMAIN vals : Plausible(vals[j]) => i <= j
    ELSE 0

\* try: inputs = page.locator('input').all(); the first input whose value is
\* a number >= 100 is clicked, emptied and filled with str(price); except:
\* the error is only printed.  "raise": a call raised before any input was
\* changed (all(), get_attribute(), click() or fill("")); "emptied":
\* fill(str(price)) raised after fill("") had emptied the input
PaidPrice ==
    /\ pc = "paid_price"
    /\ LET k == FirstPlausible(pageInputs)
       IN \E o \in {"done", "raise", "emptied"} :
            CASE o = "done" ->
                   /\ inputsAfter' = IF k = 0 THEN pageInputs
                                     ELSE [pageInputs EXCEPT ![k] = StrOf(price)]
                   /\ priceSet' = (k # 0)
                   /\ IF k # 0 THEN Do(StPaid) ELSE UNCHANGED acts
              [] o = "raise" ->
                   /\ inputsAfter' = pageInputs
                   /\ UNCHANGED <<priceSet, acts>>
              [] o = "emptied" ->
                   /\ k # 0
                   /\ inputsAfter' = [pageInputs EXCEPT ![k] = <<>>]
                   /\ Do(StPaid)
                   /\ UNCHANGED priceSet
    /\ pc' = "membership"
    /\ UNCHANGED <<inputVars, textVars, loginClicks, titleTried, launches,
                   main, result, browserOpen, lastShot, abort, loggedIn,
                   titleSel, imageVars, tagVars, paidToggled,
                   paidAreaOpened, splitRan, splitVars, submitClicks>>

\* _set_membership_plan_restriction(): an add button is clicked, or nothing is
\* found, or an exception is handled by a screenshot, which may itself raise.
\* What _set_paid_article saw of the inputs is gone by now
Membership ==
    /\ pc = "membership"
    /\ \E o \in {"clicked", "notfound", "error", "errorshot"} :
        CASE o = "clicked" ->
               /\ Do(StPaid)
               /\ Shot("debug_after_membership")
               /\ pc' = "submit_paid"
               /\ UNCHANGED abort
          [] o = "notfound" ->
               /\ Shot("debug_membership_not_found")
               /\ pc' = "submit_paid"
               /\ UNCHANGED <<acts, abort>>
          [] o = "error" ->
               /\ Shot("error_membership_setting")
               /\ pc' = "submit_paid"
               /\ UNCHANGED <<acts, abort>>
          [] o = "errorshot" ->
               /\ Raise(StPaid, "capture")
               /\ UNCHANGED <<acts, lastShot>>
    /\ inputsAfter' = Unset
    /\ priceSet' = FALSE
    /\ UNCHANGED <<inputVars, textVars, loginClicks, titleTried, launches,
                   main, result, browserOpen, loggedIn, titleSel,
                   imageVars, tagVars, paidToggled, paidAreaOpened, splitRan,
                   splitVars, submitClicks>>

\* ---------------------------------------------------------------- submission
\* if is_paid_article: paid_publish_button.is_visible() -> click()
SubmitPaid ==
    /\ pc = "submit_paid"
    /\ \E o \in {"clicked", "hidden", "raise"} :
        CASE o = "clicked" ->
               /\ paidAreaOpened' = TRUE
               /\ Do(StSplit)
               /\ pc' = "split_init"
               /\ UNCHANGED abort
          [] o = "hidden" ->
               /\ pc' = "submit_free"
               /\ UNCHANGED <<paidAreaOpened, acts, abort>>
          [] o = "raise" ->
               /\ Raise(StSplit, "other")
               /\ UNCHANGED <<paidAreaOpened, acts>>
    /\ UNCHANGED <<inputVars, textVars, runVars, main, result, browserOpen, lastShot, loggedIn, titleSel,
                   imageVars, tagVars, paidToggled, priceSet, splitRan,
                   splitVars, submitClicks>>

\* if <button>.is_visible(): <button>.click(); time.sleep(5); return True
\* when it is not visible: return False, or fall through to the free flow
SubmitButton(at, branch, hiddenReturns) ==
    /\ pc = at
    /\ \E o \in {"clicked", "hidden", "raise"} :
        CASE o = "clicked" ->
               /\ submitClicks' = Append(submitClicks, branch)
               /\ Do(StSubmit)
               /\ Return("success")
               /\ UNCHANGED abort
          [] o = "hidden" ->
               /\ IF hiddenReturns
                  THEN /\ Return("failure")
                       /\ abort' = <<StSubmit, "control">>
                  ELSE /\ pc' = "submit_free"
                       /\ UNCHANGED <<result, browserOpen, abort>>
               /\ UNCHANGED <<submitClicks, acts>>
          [] o = "raise" ->
               /\ Raise(StSubmit, "other")
               /\ UNCHANGED <<submitClicks, acts, result, browserOpen>>
    /\ UNCHANGED <<inputVars, textVars, runVars, main, lastShot, loggedIn, titleSel, imageVars,
                   tagVars, paidVars, splitClicks>>

\* final_publish after the paid-area screen; falls through when not visible.
\* The locals of _select_paid_line_position are gone by now
SubmitFinal ==
    /\ SubmitButton("submit_final", "paid", FALSE)
    /\ lineButtons' = <<>>
    /\ markerPat' = 0
    /\ markerSeen' = 0
    /\ markerY' = NoBox
    /\ rounds' = 0

\* publish_button of the free flow; return False when not visible
SubmitFree ==
    /\ SubmitButton("submit_free", "free", TRUE)
    /\ UNCHANGED <<lineButtons, markerPat, markerSeen, markerY, rounds>>

\* ------------------------------------------- _select_paid_line_position()
Positions == 0..MaxY
Boxes == Positions \cup {NoBox}

\* the loop over line_buttons: (best, dist) is (closest_button,
\* closest_distance) before button i is examined; 0 stands for None and
\* MaxY + 1 exceeds every distance, like float('inf')
RECURSIVE ClosestFromLast(_, _, _, _, _)
ClosestFromLast(btns, my, i, best, dist) ==
    IF i > Len(btns) THEN best
    ELSE IF btns[i] # NoBox /\ btns[i] < my
         THEN ClosestFromLast(btns, my, i + 1, i, my - btns[i])
         ELSE ClosestFromLast(btns, my, i + 1, best, dist)

RECURSIVE ClosestFrom(_, _, _, _, _)
ClosestFrom(btns, my, i, best, dist) ==
    IF i > Len(btns) THEN best
    ELSE IF btns[i] # NoBox /\ btns[i] < my /\ my - btns[i] < dist
         THEN ClosestFrom(btns, my, i + 1, i, my - btns[i])
         ELSE ClosestFrom(btns, my, i + 1, best, dist)

\* closest_button for marker_y = my: index into line_buttons, 0 = None
ClosestButton(btns, my) == ClosestFrom(btns, my, 1, 0, MaxY + 1)

\* the control that is clicked when the marker's box is at my (NoBox: no
\* marker or no box): closest_button if there is one, else line_buttons[0]
SplitTargetLast(btns, my) ==
    IF my # NoBox /\ ClosestButton(btns, my) # 0
    THEN ClosestButton(btns, my)
    ELSE Len(btns)
SplitTarget(btns, my) ==
    IF my # NoBox /\ ClosestButton(btns, my) # 0
    THEN ClosestButton(btns, my)
    ELSE 1

\* _select_paid_line_position returns to _create_and_publish
SplitReturn == pc' = "submit_final"

\* control enters the except clause of _select_paid_line_position, which uses
\* none of the locals
SplitRaise ==
    /\ pc' = "split_except"
    /\ lineButtons' = <<>>
    /\ markerPat' = 0
    /\ markerSeen' = 0
    /\ markerY' = NoBox
    /\ rounds' = 0

\* scrollTo(0, 0); page.screenshot(debug_paid_line_selection)
SplitInit ==
    /\ pc = "split_init"
    /\ splitRan' = TRUE
    /\ \E ok \in BOOLEAN :
        IF ok
        THEN /\ Shot("debug_paid_line_selection")
             /\ pc' = "split_buttons"
        ELSE /\ pc' = "split_except"
             /\ UNCHANGED lastShot
    /\ UNCHANGED <<inputVars, textVars, runVars, main, result, browserOpen, acts, abort, loggedIn,
                   titleSel, imageVars, tagVars, paidToggled, priceSet,
                   paidAreaOpened, splitVars, submitClicks>>

\* line_buttons = the matches of the first button pattern that has any;
\* if not line_buttons: return
SplitButtons ==
    /\ pc = "split_buttons"
    /\ \/ \E btns \in SeqsUpTo(Boxes, MaxButtons) :
            /\ lineButtons' = btns
            /\ IF btns = <<>> THEN SplitReturn ELSE pc' = "split_search"
            /\ UNCHANGED <<markerPat, markerSeen, markerY, rounds>>
       \/ SplitRaise
    /\ UNCHANGED <<inputVars, textVars, runVars, main, result, browserOpen, acts, lastShot, abort,
                   loggedIn, titleSel, imageVars, tagVars, paidVars,
                   splitClicks, submitClicks>>

\* the first pattern, in list order, for which is_visible() returned True
\* ("stuck": visible, but scroll_into_view_if_needed() then raises; "hidden":
\* is_visible() returned False or raised); 0 = none
FirstSeen(o) ==
    IF \E i \in DOMAIN o : o[i] \in {"visible", "stuck"}
    THEN CHOOSE i \in DOMAIN o :
            /\ o[i] \in {"visible", "stuck"}
            /\ \A j \in DOMAIN o : o[j] \in {"visible", "stuck"} => i <= j
    ELSE 0

\* one round of "for _ in range(5)": the marker patterns are tried in order;
\* a pattern becomes the marker when is_visible() is True and the scroll into
\* view succeeds, an exception of either call moves on to the next pattern
\* (bare except: continue); when no pattern became the marker the page is
\* scrolled down by 300
SplitSearch ==
    /\ pc = "split_search"
    /\ rounds < MaxRounds
    /\ \E o \in [1..NumMarkerPatterns -> {"hidden", "stuck", "visible"}],
          scrollOk \in BOOLEAN :
        CASE FirstVisible(o) # 0 ->
               /\ markerPat' = FirstVisible(o)
               /\ markerSeen' = FirstSeen(o)
               /\ Do(StSplit)
               /\ pc' = "split_select"
               /\ rounds' = 0
               /\ UNCHANGED <<lineButtons, markerY>>
          [] FirstVisible(o) = 0 /\ scrollOk ->
               /\ pc' = IF rounds + 1 = MaxRounds THEN "split_select"
                         ELSE "split_search"
               /\ rounds' = IF rounds + 1 = MaxRounds THEN 0 ELSE rounds + 1
               /\ markerSeen' = IF rounds + 1 = MaxRounds THEN FirstSeen(o)
                                 ELSE 0
               /\ UNCHANGED <<acts, lineButtons, markerPat, markerY>>
          [] FirstVisible(o) = 0 /\ ~scrollOk ->
               /\ SplitRaise
               /\ UNCHANGED acts
    /\ UNCHANGED <<inputVars, textVars, runVars, main, result, browserOpen, lastShot, abort, loggedIn,
                   titleSel, imageVars, tagVars, paidVars, splitClicks,
                   submitClicks>>

\* if marker_element: the closest button above marker_box['y'] is clicked;
\* otherwise, or when there is no such button or no marker box,
\* line_buttons[0] is clicked
SplitSelect ==
    /\ pc = "split_select"
    /\ \E my \in Boxes, clickOk \in BOOLEAN :
        /\ markerPat = 0 => my = NoBox
        /\ LET target == SplitTarget(lineButtons, my)
           IN IF clickOk
              THEN /\ splitClicks' = Append(splitClicks, target)
                   /\ Do(StSplit)
                   /\ SplitReturn
                   /\ markerY' = my
                   /\ markerSeen' = 0
                   /\ UNCHANGED <<lineButtons, markerPat, rounds>>
              ELSE /\ SplitRaise
                   /\ UNCHANGED <<splitClicks, acts>>
    /\ UNCHANGED <<inputVars, textVars, runVars, main, result, browserOpen, lastShot, abort, loggedIn,
                   titleSel, imageVars, tagVars, paidVars, submitClicks>>

\* except Exception: page.screenshot(error_paid_line_selection); a failing
\* screenshot raises out of _select_paid_line_position up to publish()
SplitExcept ==
    /\ pc = "split_except"
    /\ \E shotOk \in BOOLEAN :
        IF shotOk
        THEN /\ Shot("error_paid_line_selection")
             /\ SplitReturn
             /\ UNCHANGED abort
        ELSE /\ Raise(StSplit, "capture")
             /\ UNCHANGED lastShot
    /\ UNCHANGED <<inputVars, textVars, runVars, main, result, browserOpen, acts, loggedIn, titleSel,
                   imageVars, tagVars, paidVars, splitVars, submitClicks>>

\* ------------------------------------------------------------ specification
Next ==
    \/ Launch \/ NewPage \/ PublishExcept
    \/ LoginGoto \/ LoginShot \/ LoginEmail \/ LoginPassword \/ LoginButton
    \/ LoginWait
    \/ NavGoto \/ NavShot \/ NavUrlCheck
    \/ TitleResolve \/ TitleFallback \/ TitleFill
    \/ BodyClick \/ BodyType
    \/ ImgExists \/ ImgScroll \/ ImgEscape \/ ImgMethod1 \/ ImgMethod2
    \/ ImgMethod3 \/ ImgShot \/ ImgMenu \/ ImgChoose
    \/ ImgSave1 \/ ImgSave2 \/ ImgSave3 \/ ImgClose \/ ImgExcept
    \/ AdvanceScroll \/ AdvanceClick \/ TagFill \/ TagEnter
    \/ PaidToggle \/ PaidPrice \/ Membership
    \/ SubmitPaid \/ SplitInit \/ SplitButtons \/ SplitSearch \/ SplitSelect
    \/ SplitExcept \/ SubmitFinal \/ SubmitFree

Spec == Init /\ [][Next]_vars

\* ------------------------------------------------------------ article texts
\* the blocks article bodies are built from: a body is up to MaxBlocks
\* blocks joined by newlines
Blocks ==
    { <<>>,
      <<NL, NL>>,
      <<"a">>,
      <<"#", " ", "a">>,
      <<"#", "#", "#", "#", " ", "a">>,
      <<"#", " ", "#", "a">>,
      <<"-", " ", "a">>,
      <<"-", "-", "-">>,
      Fence,
      <<"|", "a", "|", "b", "|">>,
      <<"|", "-", "|">>,
      <<"|", " ", "|", "b", "|">>,
      <<"|", "a", "|", " ">>,
      <<"[", "[", "a", "]", "(", "b", ")", "]", "(", "c", ")">>,
      <<"<", "b", ">">> }
Bodies == {Join(q, <<NL>>) : q \in SeqsUpTo(Blocks, MaxBlocks)}
\* the bodies of the body typing step: blocks whose ends meet the appended
\* prompt in different ways (empty, blank lines, trailing blank, heading,
\* bullet, table row, fence)
TypeBlocks ==
    { <<>>,
      <<NL, NL>>,
      <<"a">>,
      <<"#", " ", "a">>,
      <<"-", " ", "a">>,
      Fence,
      <<"|", "a", "|", "b", "|">>,
      <<"|", "a", "|", " ">> }
TypeBodies == {Join(q, <<NL>>) : q \in SeqsUpTo(TypeBlocks, MaxBlocks)}
Prompts == {<<>>, <<"p">>}

\* ------------------------------------- specification of the body typing step
\* publish() has logged in, opened the editor, filled the title and clicked
\* the body: _create_and_publish is at line 326
TypeInit ==
    /\ pc = "body_type"
    /\ content \in TypeBodies
    /\ thumbPrompt \in Prompts
    /\ typed = Unset
    /\ cleaned = Unset
    /\ again = Unset
    /\ priceArg = NoPrice
    /\ price = InitPrice(priceArg)
    /\ thumb = "none"
    /\ tags = <<>>
    /\ result = "none"
    /\ browserOpen = TRUE
    /\ acts = <<StLogin, StNavigate, StTitle, StBody>>
    /\ lastShot = "debug_new_article_page"
    /\ abort = NoAbort
    /\ loggedIn = TRUE
    /\ titleSel = 0
    /\ iconClicked = FALSE
    /\ menuClicked = FALSE
    /\ uploadOK = FALSE
    /\ closeRan = FALSE
    /\ tagTyped = NoTag
    /\ tagsEntered = <<>>
    /\ paidToggled = FALSE
    /\ priceSet = FALSE
    /\ paidAreaOpened = FALSE
    /\ splitRan = FALSE
    /\ lineButtons = <<>>
    /\ markerPat = 0
    /\ markerSeen = 0
    /\ markerY = NoBox
    /\ rounds = 0
    /\ splitClicks = <<>>
    /\ submitClicks = <<>>
    /\ inputsAfter = Unset
    /\ loginClicks = 1
    /\ titleTried = <<>>
    /\ launches = 1
    /\ pageInputs = SampleInputs
    /\ backup = NoBackup
    /\ main = OneCall

TypeSpec == TypeInit /\ [][BodyType]_vars

\* ------------------------- specification of _clean_content_for_note alone
flowVars == <<priceArg, price, thumb, tags, result, browserOpen, acts,
              lastShot, abort, loggedIn, titleSel, imageVars, tagVars,
              paidVars, splitVars, submitClicks, thumbPrompt, typed,
              pageInputs, backup, runVars, main>>

CleanInit ==
    /\ pc = "clean_input"
    /\ content \in Bodies
    /\ thumbPrompt = <<>>
    /\ typed = Unset
    /\ cleaned = Unset
    /\ again = Unset
    /\ priceArg = NoPrice
    /\ price = InitPrice(priceArg)
    /\ thumb = "none"
    /\ tags = <<>>
    /\ result = "none"
    /\ browserOpen = FALSE
    /\ acts = <<>>
    /\ lastShot = "none"
    /\ abort = NoAbort
    /\ loggedIn = FALSE
    /\ titleSel = 0
    /\ iconClicked = FALSE
    /\ menuClicked = FALSE
    /\ uploadOK = FALSE
    /\ closeRan = FALSE
    /\ tagTyped = NoTag
    /\ tagsEntered = <<>>
    /\ paidToggled = FALSE
    /\ priceSet = FALSE
    /\ paidAreaOpened = FALSE
    /\ splitRan = FALSE
    /\ lineButtons = <<>>
    /\ markerPat = 0
    /\ markerSeen = 0
    /\ markerY = NoBox
    /\ rounds = 0
    /\ splitClicks = <<>>
    /\ submitClicks = <<>>
    /\ inputsAfter = Unset
    /\ loginClicks = 0
    /\ titleTried = <<>>
    /\ launches = 0
    /\ pageInputs = SampleInputs
    /\ backup = NoBackup
    /\ main = OneCall

\* _clean_content_for_note(content)
CleanOnce ==
    /\ pc = "clean_input"
    /\ cleaned' = Clean(content)
    /\ pc' = "clean_once"
    /\ UNCHANGED <<flowVars, content, again>>

\* _clean_content_for_note applied to its own result
CleanTwice ==
    /\ pc = "clean_once"
    /\ again' = Clean(cleaned)
    /\ pc' = "clean_twice"
    /\ UNCHANGED <<flowVars, content, cleaned>>

CleanNext == CleanOnce \/ CleanTwice

CleanSpec == CleanInit /\ [][CleanNext]_vars

\* ------------------------------------ specification of _set_paid_article
InputValues == {NoValue, <<>>, <<"a">>, <<"9", "9">>, <<"5", "0", "0">>}

\* publish() is at the call of _set_paid_article (line 359): a priced article
\* without tags and image, the editor is on the publish settings
PriceInit ==
    /\ pc = "paid_toggle"
    /\ pageInputs \in SeqsUpTo(InputValues, MaxInputs)
    /\ backup = NoBackup
    /\ priceArg \in {NoPrice, 100}
    /\ price = InitPrice(priceArg)
    /\ content = SampleBody
    /\ thumbPrompt = <<>>
    /\ typed = TypedText(content, thumbPrompt)
    /\ cleaned = Unset
    /\ again = Unset
    /\ thumb = "none"
    /\ tags = <<>>
    /\ result = "none"
    /\ browserOpen = TRUE
    /\ acts = <<StLogin, StNavigate, StTitle, StBody, StAdvance>>
    /\ lastShot = "debug_new_article_page"
    /\ abort = NoAbort
    /\ loggedIn = TRUE
    /\ titleSel = 0
    /\ iconClicked = FALSE
    /\ menuClicked = FALSE
    /\ uploadOK = FALSE
    /\ closeRan = FALSE
    /\ tagTyped = NoTag
    /\ tagsEntered = <<>>
    /\ paidToggled = FALSE
    /\ priceSet = FALSE
    /\ paidAreaOpened = FALSE
    /\ splitRan = FALSE
    /\ lineButtons = <<>>
    /\ markerPat = 0
    /\ markerSeen = 0
    /\ markerY = NoBox
    /\ rounds = 0
    /\ splitClicks = <<>>
    /\ submitClicks = <<>>
    /\ inputsAfter = Unset
    /\ loginClicks = 1
    /\ titleTried = <<>>
    /\ launches = 1
    /\ main = OneCall

PriceNext == PaidToggle \/ PaidPrice

PriceSpec == PriceInit /\ [][PriceNext]_vars

\* ------------------------------------------------ main(): the process run
\* the article of every call of publish() in a process run
SampleTags == <<"t1">>

\* the links of the topics the feeds and the web search can return; a custom
\* topic without search results has the empty link
Urls == {"u1", "u2"}
NoTopic == "none"

\* if custom_topic: if args.count > 1: args.count = 1
EffectiveCount(c, custom) == IF custom /\ c > 1 THEN 1 ELSE c

\* PostedTracker.get_posted_urls
PostedUrls(posted) == {posted[i] : i \in DOMAIN posted}

\* select_best_topic: topics = [t for t in topics if t.link not in
\* exclude_urls], the candidates left of the feed
EligibleAll(feed, exclude) == feed
Eligible(feed, exclude) == {u \in feed : u \notin exclude}

\* PostedTracker.mark_as_posted: if not self.is_posted(url): append
MarkAsPosted(posted, url) ==
    IF url \in PostedUrls(posted) THEN posted ELSE Append(posted, url)

\* if success: tracker.mark_as_posted(topic.link, topic.title)
RecordedAlways(res, posted, url) == MarkAsPosted(posted, url)
Recorded(res, posted, url) ==
    IF res = "success" THEN MarkAsPosted(posted, url) ELSE posted

\* publisher = publisher_free if is_free else publisher_paid: the price the
\* publisher was constructed with
PublisherPricePaid(isFree) == ArgsPrice
PublisherPrice(isFree) == IF isFree THEN 0 ELSE ArgsPrice

\* an uncaught exception ends the process with a traceback and status 1
Crashed(m, by) == [m EXCEPT !.at = "crashed", !.crash = by,
                            !.exit = "nonzero"]

\* PostedTracker._load at the start of a run asked for c articles
LoadedTopics(c) == IF c = 1 THEN {<<>>, <<"u1">>} ELSE {<<>>}

\* main() has parsed its arguments and built its two publishers; no call
\* of publish() is under way.  data/posted_topics.json is empty or holds one
\* link of an earlier run (a run of several articles fills it by itself)
MainInit ==
    /\ main \in UNION {
         {[at |-> "generate", article |-> 1,
           count |-> EffectiveCount(c, cu), dryRun |-> d,
           written |-> {}, files |-> {}, outcomes |-> <<>>,
           custom |-> cu, posted |-> po, topic |-> NoTopic,
           lastFailed |-> NoTopic,
           isFree |-> FALSE, succ |-> 0, fail |-> 0,
           exit |-> "running", crash |-> "none"] :
             d \in BOOLEAN, cu \in BOOLEAN, po \in LoadedTopics(c)} :
         c \in 1..MaxArticles}
    /\ pc = "idle"
    /\ priceArg = ArgsPrice
    /\ price = InitPrice(priceArg)
    /\ thumb = "none"
    /\ tags = SampleTags
    /\ content = SampleBody
    /\ thumbPrompt = <<>>
    /\ pageInputs = SampleInputs
    /\ backup = NoBackup
    /\ typed = Unset
    /\ cleaned = Unset
    /\ again = Unset
    /\ result = "none"
    /\ browserOpen = FALSE
    /\ acts = <<>>
    /\ lastShot = "none"
    /\ abort = NoAbort
    /\ loggedIn = FALSE
    /\ titleSel = 0
    /\ iconClicked = FALSE
    /\ menuClicked = FALSE
    /\ uploadOK = FALSE
    /\ closeRan = FALSE
    /\ tagTyped = NoTag
    /\ tagsEntered = <<>>
    /\ paidToggled = FALSE
    /\ priceSet = FALSE
    /\ paidAreaOpened = FALSE
    /\ splitRan = FALSE
    /\ lineButtons = <<>>
    /\ markerPat = 0
    /\ markerSeen = 0
    /\ markerY = NoBox
    /\ rounds = 0
    /\ splitClicks = <<>>
    /\ submitClicks = <<>>
    /\ inputsAfter = Unset
    /\ loginClicks = 0
    /\ titleTried = <<>>
    /\ launches = 0

\* the variables of publish() that main() does not set
callVars == <<result, browserOpen, acts, lastShot, abort, loggedIn, titleSel,
              imageVars, tagVars, paidVars, splitVars, submitClicks, textVars,
              runVars>>

\* topics.sort(key=lambda t: t.score, reverse=True); topics[0]: the candidate
\* that comes first in the ranking by score
RECURSIVE BestFrom(_, _, _)
BestFrom(ranking, cands, i) ==
    IF i > Len(ranking) THEN NoTopic
    ELSE IF ranking[i] \in cands THEN ranking[i]
         ELSE BestFrom(ranking, cands, i + 1)
Best(ranking, cands) == BestFrom(ranking, cands, 1)

\* the rankings by score of the topics
Rankings == {<<"u1", "u2">>, <<"u2", "u1">>}

\* the loop body up to steps 1 and 2 of create_single_article: is_free is
\* drawn, a topic is selected (the custom topic, or the best feed topic whose
\* link is not posted and whose title is not similar to a posted one) and the
\* article generated; without a topic the function returns its result with
\* the error set; an exception of the collector or the generator leaves
\* main().  Feeds, Similars and Scores are what fetch_topics,
\* is_similar_posted and the scores can be
GenerateFrom(Feeds, Similars, Scores) ==
    /\ main.at = "generate"
    /\ \E free \in BOOLEAN, feed \in Feeds, similar \in Similars,
          ranking \in Scores :
        LET cands == Eligible(feed, PostedUrls(main.posted)) \ similar
        IN \/ main' = Crashed(main, "generate")
           \/ /\ ~main.custom
              /\ cands = {}
              /\ main' = [main EXCEPT !.at = "next",
                                       !.isFree = free,
                                       !.outcomes = Append(@, "no_topic")]
           \/ /\ ~main.custom
              /\ cands # {}
              /\ main' = [main EXCEPT !.at = "backup",
                                       !.isFree = free,
                                       !.topic = Best(ranking, cands)]
           \/ /\ main.custom
              /\ \E link \in Urls \cup {""} :
                    main' = [main EXCEPT !.at = "backup",
                                         !.isFree = free,
                                         !.topic = link]
    /\ UNCHANGED <<pc, inputVars, callVars>>

\* the feeds return the same two topics on every fetch, u1 ranked first, and
\* no title is similar to a posted one
Generate == GenerateFrom({Urls}, {{}}, {<<"u1", "u2">>})

\* any feed contents, similar titles and scores
GenerateAny == GenerateFrom(SUBSET Urls, SUBSET Urls, Rankings)

\* if dry_run: ... return result; else publisher.publish(...)
AfterBackupCall(dry) == "call"
AfterBackup(dry) == IF dry THEN "dry" ELSE "call"

BackupSkipped ==
    /\ main.at = "backup"
    /\ main' = [main EXCEPT !.at = AfterBackup(main.dryRun)]
    /\ UNCHANGED <<pc, inputVars, callVars>>
\* output/article_<timestamp>.md is written; open() or write() raising
\* leaves main().  The articles of a run are written seconds apart, so each
\* has a file of its own
BackupWrite ==
    /\ main.at = "backup"
    /\ \E ok \in BOOLEAN :
        IF ok
        THEN main' = [main EXCEPT !.at = AfterBackup(main.dryRun),
                                  !.written = @ \cup {main.article},
                                  !.files = @ \cup {main.article}]
        ELSE main' = Crashed(main, "backup")
    /\ UNCHANGED <<pc, inputVars, callVars>>

\* dry run: the topic is marked as posted, the article counts as a success
\* and publish() is not called; _save() raising leaves main()
DryRunReturn ==
    /\ main.at = "dry"
    /\ \E saved \in BOOLEAN :
        LET m == [main EXCEPT !.posted =
                      MarkAsPosted(@, main.topic)]
        IN IF saved \/ m.posted = main.posted
           THEN main' = [m EXCEPT !.at = "next",
                                  !.outcomes = Append(@, "none")]
           ELSE main' = Crashed(m, "tracker")
    /\ UNCHANGED <<pc, inputVars, callVars>>

\* publisher.publish(article, thumbnail_path=thumbnail_path): the publisher
\* is publisher_free (price 0) or publisher_paid (args.price), the thumbnail
\* path is None when no thumbnail was generated
PublishCall ==
    /\ main.at = "call"
    /\ \E th \in {"none", "exists"} :
        /\ priceArg' = PublisherPrice(main.isFree)
        /\ price' = InitPrice(PublisherPrice(main.isFree))
        /\ thumb' = th
    /\ pc' = "launch"
    /\ main' = [main EXCEPT !.at = "publishing"]
    /\ UNCHANGED <<tags, content, thumbPrompt, pageInputs, backup, callVars>>

\* publish() is over: on True the topic is marked as posted (_save() raising
\* leaves main()); True and False become the result of the article, an
\* exception of publish() is caught nowhere and leaves main().  The locals of
\* publish() are gone
PublishReturn ==
    /\ main.at = "publishing"
    /\ pc = "done"
    /\ \E saved \in BOOLEAN :
        LET m == [main EXCEPT !.posted =
                      Recorded(result, @, main.topic)]
        IN main' = CASE result = "success" /\ (saved \/ m.posted = main.posted)
                          -> [m EXCEPT !.at = "next",
                                       !.outcomes = Append(@, "none")]
                     [] result = "success" /\ ~saved /\ m.posted # main.posted
                          -> Crashed(m, "tracker")
                     [] result = "failure" ->
                          [m EXCEPT !.at = "next",
                                    !.lastFailed = main.topic,
                                    !.outcomes = Append(@, "publish_failed")]
                     [] OTHER -> Crashed(m, "publish")
    /\ pc' = "idle"
    /\ result' = "none"
    /\ acts' = <<>>
    /\ lastShot' = "none"
    /\ abort' = NoAbort
    /\ loggedIn' = FALSE
    /\ tagTyped' = NoTag
    /\ tagsEntered' = <<>>
    /\ paidToggled' = FALSE
    /\ priceSet' = FALSE
    /\ paidAreaOpened' = FALSE
    /\ splitRan' = FALSE
    /\ splitClicks' = <<>>
    /\ submitClicks' = <<>>
    /\ typed' = Unset
    /\ inputsAfter' = Unset
    /\ loginClicks' = 0
    /\ launches' = 0
    /\ UNCHANGED <<inputVars, browserOpen, titleSel, imageVars, lineButtons,
                   markerPat, markerSeen, markerY, rounds, cleaned, again,
                   titleTried>>

\* article_results.append(result); success_count or fail_count is
\* incremented; for i in range(args.count): the next article, or the end of
\* the loop
NextArticle ==
    /\ main.at = "next"
    /\ LET ok == main.outcomes[Len(main.outcomes)] = "none"
           m == [main EXCEPT !.succ = IF ok THEN @ + 1 ELSE @,
                             !.fail = IF ok THEN @ ELSE @ + 1,
                             !.isFree = FALSE, !.topic = NoTopic]
       IN main' = IF main.article < main.count
                  THEN [m EXCEPT !.at = "generate", !.article = @ + 1]
                  ELSE [m EXCEPT !.at = "cleanup"]
    /\ UNCHANGED <<pc, inputVars, callVars>>

\* cleanup_generated_files(): every output/*.md is removed (a file whose
\* os.remove raises stays); then main() returns, or calls sys.exit(1) if
\* fail_count > 0
Cleanup ==
    /\ main.at = "cleanup"
    /\ \E kept \in SUBSET main.files :
        main' = [main EXCEPT !.at = "exited", !.files = kept,
                             !.exit = IF main.fail > 0 THEN "nonzero"
                                      ELSE "zero"]
    /\ UNCHANGED <<pc, inputVars, callVars>>

MainNext ==
    \/ Next
    \/ Generate \/ BackupWrite \/ DryRunReturn \/ PublishCall \/ PublishReturn
    \/ NextArticle \/ Cleanup

MainSpec == MainInit /\ [][MainNext]_vars

\* ---------------------------------------- main(): the tracker of the topics
\* publish() as create_single_article sees it: it returns True or False, or
\* raises
PublishOutcome ==
    /\ main.at = "publishing"
    /\ pc = "launch"
    /\ pc' = "done"
    /\ result' \in {"success", "failure", "raised"}
    /\ UNCHANGED <<main, inputVars, browserOpen, acts, lastShot, abort,
                   loggedIn, titleSel, imageVars, tagVars, paidVars,
                   splitVars, submitClicks, textVars, runVars>>

TrackNext ==
    \/ GenerateAny \/ BackupWrite \/ DryRunReturn \/ PublishCall
    \/ PublishOutcome \/ PublishReturn \/ NextArticle \/ Cleanup

TrackSpec == MainInit /\ [][TrackNext]_vars

\* ------------------------------------- the backup file and the post command
CR == "\r"
\* '**Tags:**'
TagsLabel == <<"*", "*", "T", "a", "g", "s", ":", "*", "*">>
\* '## Thumbnail Prompt (for Whisk)'
BackupPromptHeading ==
    <<"#", "#", " ", "T", "h", "u", "m", "b", "n", "a", "i", "l", " ",
      "P", "r", "o", "m", "p", "t", " ", "(", "f", "o", "r", " ",
      "W", "h", "i", "s", "k", ")">>
Rule == <<"-", "-", "-">>

\* create_single_article: the text written to output/article_<timestamp>.md
BackupText(title, tagList, body, prompt) ==
    <<"#", " ">> \o title \o <<NL, NL>>
    \o (IF tagList # <<>>
        THEN TagsLabel \o <<" ">> \o Join(tagList, <<",", " ">>) \o <<NL, NL>>
        ELSE <<>>)
    \o Rule \o <<NL, NL>>
    \o body
    \o (IF prompt # <<>>
        THEN <<NL, NL>> \o Rule \o <<NL, NL>> \o BackupPromptHeading \o <<NL>>
             \o Fence \o <<NL>> \o prompt \o <<NL>> \o Fence \o <<NL>>
        ELSE <<>>)

\* f.read() of a file opened in text mode: '\r\n' and '\r' are read as '\n'
\* (the '\n' of a '\r\n' is marked with the empty string and dropped)
IsKept(c) == c # ""
ReadText(s) ==
    SelectSeq([i \in 1..Len(s) |->
                   IF s[i] = NL /\ i > 1 /\ s[i - 1] = CR THEN ""
                   ELSE IF s[i] = CR THEN NL ELSE s[i]],
              IsKept)

\* str.replace(p, ""), p not empty (the text from character i on)
RECURSIVE RemoveAllFrom(_, _, _)
RemoveAllFrom(s, p, i) ==
    IF i > Len(s) THEN <<>>
    ELSE IF i + Len(p) - 1 <= Len(s) /\ SubSeq(s, i, i + Len(p) - 1) = p
         THEN RemoveAllFrom(s, p, i + Len(p))
         ELSE <<s[i]>> \o RemoveAllFrom(s, p, i + 1)
RemoveAll(s, p) == RemoveAllFrom(s, p, 1)

\* [t.strip() for t in tag_str.split(",")]
StripEachNot(parts) == parts
StripEach(parts) == [i \in DOMAIN parts |-> Strip(parts[i])]

\* the loop of post_existing_article over the lines, from line i on, with
\* the title and the tags found so far; start is the line of the first
\* '---' (body_start, counted from 1), 0 when the loop ends without a break
RECURSIVE ParseFrom(_, _, _, _)
ParseFrom(ls, i, title, tagList) ==
    IF i > Len(ls) THEN [title |-> title, tags |-> tagList, start |-> 0]
    ELSE IF StartsWith(ls[i], <<"#", " ">>)
         THEN ParseFrom(ls, i + 1, Strip(SubSeq(ls[i], 3, Len(ls[i]))), tagList)
    ELSE IF StartsWith(ls[i], TagsLabel)
         THEN ParseFrom(ls, i + 1, title,
                        StripEach(SplitOn(Strip(RemoveAll(ls[i], TagsLabel)),
                                          ",")))
    ELSE IF StartsWith(ls[i], Rule)
         THEN [title |-> title, tags |-> tagList, start |-> i]
    ELSE ParseFrom(ls, i + 1, title, tagList)

\* post_existing_article: the Article made of the text of the file
ParseBackup(text) ==
    LET ls == SplitOn(text, NL)
        h == ParseFrom(ls, 1, <<>>, <<>>)
    IN [title |-> h.title,
        tags |-> h.tags,
        content |-> Strip(Join(SubSeq(ls, h.start + 1, Len(ls)), <<NL>>)),
        prompt |-> <<>>]

\* the articles whose backup is written and read back
TitleTexts == {<<>>, <<"a">>, <<" ", "a">>, <<"a", " ">>, <<"a", CR, "b">>,
               <<"a", NL, "b">>}
TagTexts == {<<"a">>, <<"b", " ", "c">>, <<" ", "a">>, <<"a", ",", "b">>,
             <<>>}
BodyTexts == {<<>>, <<"a">>, <<NL, "a", NL>>,
              <<"a", NL>> \o Rule \o <<NL, "b">>,
              <<"#", " ", "a">>, <<"a", CR, "b">>,
              <<" ", "a", NL, NL, "b", " ">>,
              TagsLabel \o <<" ", "x">>}
PromptTexts == {<<>>, <<"p">>}

\* main() has been started with the post command
PostCommand == [OneCall EXCEPT !.at = "post", !.written = {}, !.files = {}]

BackupInit ==
    /\ backup \in {[at |-> "write",
                    article |-> [title |-> t, tags |-> g, content |-> c,
                                 prompt |-> q]] :
                      t \in TitleTexts, g \in SeqsUpTo(TagTexts, MaxTags),
                      c \in BodyTexts, q \in PromptTexts}
    /\ main = PostCommand
    /\ pc = "idle"
    /\ priceArg = ArgsPrice
    /\ price = InitPrice(priceArg)
    /\ thumb = "none"
    /\ tags = SampleTags
    /\ content = SampleBody
    /\ thumbPrompt = <<>>
    /\ pageInputs = SampleInputs
    /\ typed = Unset
    /\ cleaned = Unset
    /\ again = Unset
    /\ result = "none"
    /\ browserOpen = FALSE
    /\ acts = <<>>
    /\ lastShot = "none"
    /\ abort = NoAbort
    /\ loggedIn = FALSE
    /\ titleSel = 0
    /\ iconClicked = FALSE
    /\ menuClicked = FALSE
    /\ uploadOK = FALSE
    /\ closeRan = FALSE
    /\ tagTyped = NoTag
    /\ tagsEntered = <<>>
    /\ paidToggled = FALSE
    /\ priceSet = FALSE
    /\ paidAreaOpened = FALSE
    /\ splitRan = FALSE
    /\ lineButtons = <<>>
    /\ markerPat = 0
    /\ markerSeen = 0
    /\ markerY = NoBox
    /\ rounds = 0
    /\ splitClicks = <<>>
    /\ submitClicks = <<>>
    /\ inputsAfter = Unset
    /\ loginClicks = 0
    /\ titleTried = <<>>
    /\ launches = 0

\* with open(output_file, "w", encoding="utf-8") as f: f.write(...)
WriteBackup ==
    /\ backup.at = "write"
    /\ backup' = [at |-> "read",
                  article |-> backup.article,
                  file |-> BackupText(backup.article.title,
                                      backup.article.tags,
                                      backup.article.content,
                                      backup.article.prompt)]
    /\ UNCHANGED <<pc, priceArg, price, thumb, tags, content, thumbPrompt,
                   pageInputs, callVars, main>>

\* content = f.read(); the title, the tags and the body are parsed
ReadBackup ==
    /\ backup.at = "read"
    /\ backup' = [at |-> "parsed",
                  article |-> backup.article,
                  file |-> backup.file,
                  read |-> ParseBackup(ReadText(backup.file))]
    /\ UNCHANGED <<pc, priceArg, price, thumb, tags, content, thumbPrompt,
                   pageInputs, callVars, main>>

BackupNext == WriteBackup \/ ReadBackup

BackupSpec == BackupInit /\ [][BackupNext]_vars

\* ------------------------------------------------------------------ claims
Range(q) == {q[i] : i \in DOMAIN q}
Increasing(q) == \A i \in 1..(Len(q) - 1) : q[i] < q[i + 1]
ImagePcs == {"img_exists", "img_scroll", "img_esc", "img_m1", "img_m2",
             "img_m3", "img_shot", "img_menu", "img_choose", "img_save1",
             "img_save2", "img_save3", "img_close", "img_except"}
PaidPcs == {"paid_toggle", "paid_price", "membership", "submit_paid",
            "split_init", "split_buttons", "split_search", "split_select",
            "split_except", "submit_final"}
RequiredStages == {StTitle, StBody, StAdvance, StSubmit}

\* C1: publish() returns success exactly when the final submit control was
\* clicked in this call (which requires a successful login), and in every
\* other execution it returns failure.
C1_SuccessIffSubmitted ==
    pc = "done" =>
        /\ (result = "success") <=> (submitClicks # <<>>)
        /\ submitClicks # <<>> => loggedIn
        /\ result # "success" => result = "failure"

\* C2: the stages in which page actions are performed only move forward
\* (login, navigate, title, body, image, advance, tags, paid settings, split
\* point, submit), and once an aborting failure has happened no further page
\* action of any stage is performed.
C2_ForwardOnly ==
    [][/\ Increasing(acts')
       /\ abort # NoAbort => acts' = acts]_vars

\* C2 witness: a priced run with tags and an image that performed actions of
\* all ten stages and ended.
C2_Witness ==
    /\ pc = "done"
    /\ acts = <<StLogin, StNavigate, StTitle, StBody, StImage, StAdvance,
                StTags, StPaid, StSplit, StSubmit>>

\* C3: when a required control (title field, body surface, advance button,
\* final submit button) cannot be resolved, no action of a later stage and no
\* final submit click is performed, and publish() returns failure.
C3_RequiredFailureAborts ==
    (abort[1] \in RequiredStages /\ abort[2] = "control") =>
        /\ \A i \in DOMAIN acts : acts[i] <= abort[1]
        /\ submitClicks = <<>>
        /\ pc = "done" => result = "failure"

\* C4: no exception ever escapes publish(): whatever fails, the caller gets
\* a return value.
C4_NeverRaises == result # "raised"

\* C5: a failure while entering the tags (field not found, a tag entry
\* failing) is never the failure that aborts the run.
C5_TagFailureNeverAborts == abort[1] # StTags

\* C6: the image stage is not entered when no image path is given, and once
\* entered it always hands control on to the advance step of
\* _create_and_publish (lines 340-347): no failure inside it aborts the run.
C6_ImageNeverAborts ==
    [][/\ pc \in ImagePcs => pc' \in ImagePcs \cup {"advance_scroll"}
       /\ abort'[1] # StImage
       /\ thumb = "none" => (pc' \notin ImagePcs /\ StImage \notin Range(acts'))]_vars

\* C6 witness: the upload raised, its handler ran, and the flow is at the
\* advance button.
C6_Witness ==
    /\ pc = "advance_click"
    /\ thumb = "exists"
    /\ lastShot = "error_thumbnail_upload"

\* C7: whenever the image stage opened the upload affordance or the upload
\* overlay and ends without a confirmed upload, the close routine has run
\* when control reaches the advance step.
C7_OverlayClosedBeforeAdvance ==
    (pc = "advance_scroll" /\ (iconClicked \/ menuClicked) /\ ~uploadOK)
        => closeRan

\* C8: with price 0 the paid settings and the split-point stage are never
\* entered: no paid toggle, price input, paid-area button or split-point
\* click, and every final submit click is the free flow's.
C8_FreeSkipsPaidStages ==
    priceArg = 0 =>
        /\ pc \notin PaidPcs
        /\ StPaid \notin Range(acts)
        /\ StSplit \notin Range(acts)
        /\ ~paidToggled /\ ~priceSet /\ ~paidAreaOpened /\ ~splitRan
        /\ splitClicks = <<>>
        /\ \A i \in DOMAIN submitClicks : submitClicks[i] = "free"

\* C8 witness: a free article with tags was submitted.
C8_Witness ==
    /\ priceArg = 0
    /\ tags # <<>>
    /\ result = "success"

\* C9: with a price above 0, the final submit control is clicked only after
\* the paid-area surface was opened and the split-point selection ran.
C9_PricedSubmitAfterSplit ==
    (IsPaid(price) /\ submitClicks # <<>>) => (paidAreaOpened /\ splitRan)

\* the controls strictly above the marker
Above(btns, my) == {i \in DOMAIN btns : btns[i] # NoBox /\ btns[i] < my}

\* C10: when the marker is visible with a position and some split-point
\* control lies strictly above it, a selection that returns normally has
\* clicked exactly one control, and that control is strictly above the
\* marker with no other control strictly above the marker below it.
C10_NearestAboveClicked ==
    (pc = "submit_final" /\ markerPat # 0 /\ markerY # NoBox
        /\ Above(lineButtons, markerY) # {})
    => /\ Len(splitClicks) = 1
       /\ splitClicks[1] \in Above(lineButtons, markerY)
       /\ \A j \in Above(lineButtons, markerY) :
            lineButtons[j] <= lineButtons[splitClicks[1]]

\* C10 witness: two controls above the marker, the nearer one second in page
\* order, and it is the one clicked.
C10_Witness ==
    /\ pc = "submit_final"
    /\ markerPat # 0
    /\ lineButtons = <<0, 1>>
    /\ markerY = 2
    /\ splitClicks = <<2>>

\* C11: when the marker was found and has a position, no split-point control
\* positioned at or below the marker is clicked, whatever the arrangement of
\* the controls (also when none of them lies strictly above the marker).
C11_NeverAtOrBelowMarker ==
    (pc = "submit_final" /\ markerPat # 0 /\ markerY # NoBox) =>
        \A k \in DOMAIN splitClicks :
            ~(/\ lineButtons[splitClicks[k]] # NoBox
              /\ lineButtons[splitClicks[k]] >= markerY)

C13_TagsInOrder ==
    /\ Len(tagsEntered) <= Len(tags)
    /\ \A i \in DOMAIN tagsEntered : tagsEntered[i] = tags[i]
    /\ tagTyped # NoTag =>
            /\ Len(tagsEntered) < Len(tags)
            /\ tagTyped = tags[Len(tagsEntered) + 1]
    /\ (pc \in PaidPcs \cup {"submit_free"} \/ result = "success") =>
            /\ tagsEntered = tags
            /\ tagTyped = NoTag
C13_Witness ==
    /\ pc \in {"paid_toggle", "submit_free"}
    /\ Len(tags) = MaxTags
    /\ tags[1] # tags[2]
    /\ tagsEntered = tags
\* ----------------------------------------------------- claims about texts
Lines(s) == SplitOn(s, NL)
IsFenceLine(line) == StartsWith(Strip(line), Fence)
HasFence(s) == \E i \in DOMAIN Lines(s) : IsFenceLine(Lines(s)[i])
StartsWithPipe(line) == line # <<>> /\ line[1] = "|"

\* q is p with elements left out
RECURSIVE IsSubseq(_, _)
IsSubseq(p, q) ==
    IF p = <<>> THEN TRUE
    ELSE IF q = <<>> THEN FALSE
    ELSE IF p[1] = q[1] THEN IsSubseq(Tail(p), Tail(q))
    ELSE IsSubseq(p, Tail(q))

\* C14 as stated: the text typed into the editing surface is exactly
\* sanitize(article body), nothing prepended or appended.
C14_TypedIsCleanBody == typed # Unset => typed = Clean(content)

\* C14 as amended: the text typed is sanitize(article body) when the article
\* has no thumbnail prompt; with a thumbnail prompt it is sanitize of the body
\* without its trailing white space, followed by the heading
\* "## Thumbnail Prompt (for Whisk)" and the prompt.
C14_TypedIsCleanBodyAndPrompt ==
    typed # Unset =>
        \/ /\ thumbPrompt = <<>>
           /\ typed = Clean(content)
        \/ /\ thumbPrompt # <<>>
           /\ typed = Clean(RStrip(content) \o PromptHeading \o thumbPrompt)
C14_Witness ==
    /\ typed # Unset
    /\ thumbPrompt # <<>>
    /\ content # RStrip(content)
    /\ RStrip(content) # <<>>

\* C15: sanitize is idempotent: sanitize(sanitize(x)) = sanitize(x).
C15_Idempotent == again # Unset => again = cleaned

\* C16: when the input contains a table block, no line of sanitize(x) starts
\* with the pipe character.
C16_NoPipeLines ==
    (/\ cleaned # Unset
     /\ \E i \in DOMAIN Lines(content) : StartsWithPipe(Lines(content)[i])) =>
        \A j \in DOMAIN Lines(cleaned) : ~StartsWithPipe(Lines(cleaned)[j])

IsDividerRow(line) ==
    /\ IsRow(line)
    /\ \A i \in DOMAIN line : line[i] \in {"|", "-", ":", " "}
    /\ \E i \in DOMAIN line : line[i] = "-"
\* a table data row: '| c1 | ... | cn |'
IsDataRow(line) == IsRow(line) /\ ~IsDividerRow(line)
\* the bullet lines '- c1: ...: cn' of the data rows of s, in order
RECURSIVE BulletsOfRows(_)
BulletsOfRows(lines) ==
    IF lines = <<>> THEN <<>>
    ELSE IF IsDataRow(lines[1])
         THEN <<BulletOf(Cells(lines[1]))>> \o BulletsOfRows(Tail(lines))
         ELSE BulletsOfRows(Tail(lines))

\* C18: outside fenced code blocks every table data row becomes one bullet
\* line '- c1: ...: cn', in the same relative order, and every divider row is
\* dropped; no data row is lost.
C18_RowsBecomeBullets ==
    (cleaned # Unset /\ ~HasFence(content)) =>
        /\ IsSubseq(BulletsOfRows(Lines(content)), Lines(cleaned))
        /\ \A j \in DOMAIN Lines(cleaned) : ~IsDividerRow(Lines(cleaned)[j])

\* the blocks of lines between an opening fence and its closing fence;
\* block is the open block (<<"closed">> when no fence is open)
RECURSIVE FencedFrom(_, _, _, _)
FencedFrom(lines, i, open, block) ==
    IF i > Len(lines) THEN <<>>
    ELSE IF IsFenceLine(lines[i])
         THEN IF open
              THEN <<block>> \o FencedFrom(lines, i + 1, FALSE, <<>>)
              ELSE FencedFrom(lines, i + 1, TRUE, <<>>)
    ELSE IF open
         THEN FencedFrom(lines, i + 1, TRUE, Append(block, lines[i]))
         ELSE FencedFrom(lines, i + 1, FALSE, <<>>)
FencedBlocks(s) == FencedFrom(Lines(s), 1, FALSE, <<>>)

\* C19: the lines between an opening and a closing fence are left unchanged:
\* every fenced block of the input is in the output line for line, character
\* for character.
C19_FencedLinesVerbatim ==
    cleaned # Unset => FencedBlocks(cleaned) = FencedBlocks(content)

\* the level of a heading line (its number of leading '#', followed by a
\* blank), 0 for a line that is no heading
HeadingLevel(line) ==
    LET h == RunOf(line, "#", 1)
    IN IF h >= 1 /\ h + 1 <= Len(line) /\ line[h + 1] = " " THEN h ELSE 0

\* C20: no heading line of sanitize(x) has level 1 or a level deeper than 3.
C20_HeadingLevels ==
    cleaned # Unset =>
        \A j \in DOMAIN Lines(cleaned) : HeadingLevel(Lines(cleaned)[j]) \in {0, 2, 3}

\* the number of fence lines among the first i lines
FencesUpTo(lines, i) == Cardinality({j \in 1..i : IsFenceLine(lines[j])})
\* line i closes a fenced block
IsClosingFence(lines, i) ==
    IsFenceLine(lines[i]) /\ FencesUpTo(lines, i) % 2 = 0
\* line i is a heading line outside the fenced blocks
IsHeadingLine(lines, i) ==
    /\ HeadingLevel(lines[i]) >= 1
    /\ FencesUpTo(lines, i) % 2 = 0

\* C21: in sanitize(x) every closing fence that is not the last line is
\* followed by exactly one blank line, and every heading line that is not the
\* first line is preceded by exactly one blank line.
C21_GapsAroundBlocks ==
    cleaned # Unset =>
        LET ls == Lines(cleaned)
        IN \A i \in DOMAIN ls :
            /\ (IsClosingFence(ls, i) /\ i < Len(ls)) =>
                   /\ ls[i + 1] = <<>>
                   /\ i + 2 <= Len(ls) => ls[i + 2] # <<>>
            /\ (IsHeadingLine(ls, i) /\ i > 1) =>
                   /\ ls[i - 1] = <<>>
                   /\ i > 2 => ls[i - 2] # <<>>

\* --------------------------------------------- claims about the publish run
\* C22: a failing diagnostic capture never changes the run: no capture
\* failure is the failure that aborts publish(), and none is raised to the
\* caller (an exception leaves publish() only from the set-up before any
\* capture point).
C22_CaptureFailureHarmless ==
    /\ abort[2] \notin {"capture", "redirect_capture"}
    /\ result = "raised" => abort[1] = StSetup

\* the snapshots taken where publish() aborts
AbortShots == {"debug_email_error", "debug_password_error",
               "debug_login_button_error", "debug_login_failed",
               "debug_redirected_to_login", "debug_title_not_found",
               "error_screenshot"}

\* C23: every execution of publish() that ends in failure takes a diagnostic
\* snapshot at the point of the aborting failure, whatever the cause, and
\* the editor checks of Navigated are entered with the snapshot of the new
\* article page taken.
C23_FailureHasSnapshot ==
    [][/\ (result' = "failure" /\ result # "failure") =>
              (lastShot' \in AbortShots /\ lastShot' # lastShot)
       /\ (pc = "nav_shot" /\ pc' = "nav_url") =>
              lastShot' = "debug_new_article_page"]_vars

\* C25: no editor action (navigation to the new-article page or any later
\* stage) happens unless login succeeded earlier in the same call, and when
\* login fails publish() performs no action after the login stage and
\* returns failure.
C25_EditorOnlyAfterLogin ==
    /\ (\E i \in DOMAIN acts : acts[i] >= StNavigate) => loggedIn
    /\ abort[1] = StLogin =>
        /\ \A i \in DOMAIN acts : acts[i] <= StLogin
        /\ pc = "done" => result = "failure"

\* C26: no retries inside one publish() call: the login form is submitted at
\* most once, the final submit control is clicked at most once, and after
\* the aborting failure nothing is attempted again: the only step left is
\* the return of publish().
C26_NoRetries ==
    [][/\ loginClicks' <= 1
       /\ Len(submitClicks') <= 1
       /\ abort # NoAbort =>
            /\ pc' = "done"
            /\ acts' = acts
            /\ loginClicks' = loginClicks
            /\ submitClicks' = submitClicks]_vars

\* C26 witness: the login form was submitted once, the redirect did not
\* come, and publish() returned failure.
C26_Witness ==
    /\ pc = "done"
    /\ result = "failure"
    /\ loginClicks = 1
    /\ abort[1] = StLogin
    /\ lastShot = "debug_login_failed"

\* C30: the title selectors are evaluated in list order and the first one
\* with a visible match wins: every selector before the winner had no match
\* or failed its wait, none after the winner is evaluated, and the first
\* textarea of the page is used only when all selectors failed.
C30_FirstVisibleWins ==
    /\ titleSel \in 1..NumTitleSelectors =>
        /\ Len(titleTried) = titleSel
        /\ titleTried[titleSel] = "visible"
        /\ \A j \in 1..(titleSel - 1) : titleTried[j] # "visible"
    /\ titleSel = NumTitleSelectors + 1 =>
        /\ Len(titleTried) = NumTitleSelectors
        /\ \A j \in DOMAIN titleTried : titleTried[j] # "visible"

\* C30 witness: the first selector has no match, the second fails its wait,
\* the third wins and the title is about to be filled.
C30_Witness ==
    /\ pc = "title_fill"
    /\ titleSel = 3
    /\ titleTried = <<"nomatch", "timeout", "visible">>

\* ----------------------------------------------- claims about the price input
\* no input before input i has a plausible price
NoneBefore(vals, i) == \A j \in 1..(i - 1) : ~Plausible(vals[j])

\* C29: once the paid toggle is clicked, the only input _set_paid_article
\* changes is the first one, in page order, whose value is all digits and at
\* least 100, and a successful run overwrites it with the configured price;
\* whether an input qualifies or not, and whether the search raises or not,
\* the flow goes on to the next stage without aborting.
C29_FirstPlausibleInputFilled ==
    inputsAfter # Unset =>
        /\ Len(inputsAfter) = Len(pageInputs)
        /\ \A i \in DOMAIN pageInputs :
              inputsAfter[i] # pageInputs[i] =>
                  (Plausible(pageInputs[i]) /\ NoneBefore(pageInputs, i))
        /\ priceSet =>
              \E i \in DOMAIN pageInputs :
                  /\ Plausible(pageInputs[i])
                  /\ NoneBefore(pageInputs, i)
                  /\ inputsAfter[i] = StrOf(price)
        /\ (~priceSet /\ \A i \in DOMAIN pageInputs : ~Plausible(pageInputs[i])) =>
              inputsAfter = pageInputs
        /\ pc = "membership"
        /\ abort = NoAbort

\* C29 witness: two inputs hold a plausible price; the first one now holds
\* the default price 300 and the second one is as it was.
C29_Witness ==
    /\ pageInputs = << <<"5", "0", "0">>, <<"5", "0", "0">> >>
    /\ inputsAfter = << <<"3", "0", "0">>, <<"5", "0", "0">> >>
    /\ priceSet

\* ------------------------------------------- claims about the process run
\* C24: a publish() call launches at most one browser, exactly one unless
\* the launch itself raises, and works only on the browser it launched; the
\* browser is closed when publish() returns or raises; in a run of several
\* articles a browser is launched only when none is open.
C24_OneSessionPerCall ==
    [][/\ launches' <= 1
       /\ pc' \notin {"idle", "launch", "done"} => (launches' = 1 /\ browserOpen')
       /\ (pc' = "done" /\ abort' # <<StSetup, "other">>) => launches' = 1
       /\ pc' \in {"idle", "done"} => ~browserOpen'
       /\ launches' = launches + 1 => ~browserOpen
       /\ (acts' # acts /\ pc' # "idle") => (browserOpen /\ launches = 1)]_vars

\* C24 witness: the publish() call of the first article returned failure and
\* the call of the second article works on a browser of its own.
C24_Witness ==
    /\ main.article = 2
    /\ main.outcomes = <<"publish_failed">>
    /\ pc = "submit_free"
    /\ browserOpen
    /\ launches = 1

\* C27: whenever publish() is invoked for an article, and whenever a
\* generated article has been handled (posted, failed to post, or dry run),
\* the backup file of that article has been written; in a dry run publish()
\* is never invoked.
C27_BackupBeforePublish ==
    [][/\ (main'.at = "publishing" /\ main.at # "publishing") =>
              main'.article \in main'.written
       /\ pc' # "idle" => (main'.article \in main'.written /\ ~main'.dryRun)
       /\ \A i \in DOMAIN main'.outcomes :
              main'.outcomes[i] \in {"none", "publish_failed"} =>
                  i \in main'.written]_vars

\* C27 witness: both articles of a run have their backup and the publish()
\* call of the second one has just returned failure.
C27_Witness ==
    /\ main.at = "publishing"
    /\ main.article = 2
    /\ main.written = {1, 2}
    /\ pc = "done"
    /\ result = "failure"

\* C28: when the process exits after a run in which publish() failed for an
\* article, the backup file written for that article still exists.
C28_BackupSurvivesFailure ==
    main.at = "exited" =>
        \A i \in DOMAIN main.outcomes :
            main.outcomes[i] = "publish_failed" => i \in main.files

\* ------------------------------------------ claims about locating controls
\* C31: locating a control is read-only: a step of the search for the image
\* affordance that ends without the affordance found (icon_clicked still
\* False) has performed no click, key press or other page action.
C31_ResolutionReadOnly ==
    [][(pc \in {"img_m1", "img_m2", "img_m3"} /\ ~iconClicked') =>
           acts' = acts]_vars

\* C32: the marker search is bounded and ordered: at most MaxRounds rounds
\* (and scrolls) are made, the exact sentinel (pattern 1) is the marker
\* whenever it was visible in the round that ended the search, and a search
\* that ends without a marker saw no pattern visible in its last round.
C32_MarkerSearchBoundedOrdered ==
    /\ rounds < MaxRounds
    /\ (pc = "split_select" /\ markerSeen = 1) => markerPat = 1
    /\ (pc = "split_select" /\ markerPat = 0) => markerSeen = 0

\* C38: when the new-article page turns out to be the login surface, no
\* title or body is entered, no later stage acts on the page, and publish()
\* returns failure.
C38_RedirectToLoginFails ==
    (abort[1] = StNavigate /\ abort[2] \in {"redirect", "redirect_capture"}) =>
        /\ \A i \in DOMAIN acts : acts[i] <= StNavigate
        /\ titleSel = 0
        /\ typed = Unset
        /\ pc = "done" => result = "failure"


\* ------------------------------------------- claims about the run of main()
\* C33: the tracker's recorded topics change only by the topic of the
\* current article being appended, and only in dry-run mode or when publish()
\* has returned success; a failure return and a missing topic leave them as
\* they were.
C33_RecordedOnlyAfterSuccess ==
    [][/\ main'.posted # main.posted =>
            /\ main'.posted = Append(main.posted, main.topic)
            /\ \/ main.at = "dry"
               \/ main.at = "publishing" /\ result = "success"
       /\ (main.at = "publishing" /\ result = "failure") =>
            main'.posted = main.posted
       /\ main.at = "generate" => main'.posted = main.posted]_vars
C33_Witness ==
    /\ main.count = MaxArticles
    /\ ~main.dryRun
    /\ main.article = MaxArticles
    /\ main.at = "next"
    /\ main.outcomes[1] = "none"
    /\ main.outcomes[main.article] = "publish_failed"
    /\ main.posted = <<"u1">>

\* C34: the tracker never holds a link twice; a topic selected from the feeds
\* is never one whose link is recorded as posted, so the link of a successful
\* publish was not posted before; a topic whose publish failed can be selected
\* again.
C34_NoTopicTwice ==
    [][/\ \A i, j \in DOMAIN main'.posted :
            main'.posted[i] = main'.posted[j] => i = j
       /\ (main.at = "generate" /\ main'.at = "backup" /\ ~main.custom) =>
            main'.topic \notin PostedUrls(main.posted)
       /\ (main.at = "publishing" /\ result = "success" /\ ~main.custom) =>
            /\ main.topic \notin PostedUrls(main.posted)
            /\ main.topic \in PostedUrls(main'.posted)]_vars
C34_Witness ==
    /\ main.at = "backup"
    /\ main.article = MaxArticles
    /\ main.lastFailed \in Urls
    /\ main.topic = main.lastFailed

\* C35: in dry-run mode publish() is never called and no browser is launched;
\* every article whose dry run is handled to its end has its backup written,
\* its topic recorded as posted and its result reported as a success.
C35_DryRunPublishesNothing ==
    [][/\ main'.dryRun =>
            /\ pc' = "idle"
            /\ launches' = 0
            /\ ~browserOpen'
            /\ main'.at \notin {"call", "publishing"}
       /\ (main.at = "dry" /\ main'.at = "next") =>
            /\ main.article \in main'.written
            /\ main.topic \in PostedUrls(main'.posted)
            /\ Len(main'.outcomes) = main.article
            /\ main'.outcomes[main.article] = "none"]_vars
C35_Witness ==
    /\ main.dryRun
    /\ main.count = MaxArticles
    /\ main.at = "exited"
    /\ main.succ = MaxArticles
    /\ main.posted = <<"u1", "u2">>

\* C36: without a custom topic a publish failure does not stop the run: when
\* the process ends (the collector, the generator, the backup and the tracker
\* raising nothing) every one of the count articles has been attempted,
\* success_count + fail_count is the count, and the exit status is non-zero
\* exactly when fail_count > 0; with a custom topic the count is 1.
C36_FailureDoesNotStopRun ==
    /\ main.custom => main.count = 1
    /\ (/\ main.at \in {"exited", "crashed"}
        /\ ~main.custom
        /\ main.crash \in {"none", "publish"}) =>
            /\ Len(main.outcomes) = main.count
            /\ main.succ + main.fail = main.count
            /\ main.exit = "nonzero" <=> main.fail > 0

\* C37: while publish() runs for an article generated as free, the publisher
\* is the one constructed with price 0 and neither the paid settings nor the
\* split-point screen is entered; for an article generated as paid the
\* publisher is the one constructed with the command-line price.
C37_FreeModeAgrees ==
    main.at = "publishing" =>
        /\ main.isFree =>
            /\ priceArg = 0
            /\ price = 0
            /\ pc \notin PaidPcs
            /\ ~paidToggled /\ ~paidAreaOpened /\ ~splitRan
            /\ \A i \in DOMAIN acts : acts[i] \notin {StPaid, StSplit}
        /\ ~main.isFree =>
            /\ priceArg = ArgsPrice
            /\ price = ArgsPrice
C37_Witness ==
    /\ main.at = "publishing"
    /\ main.isFree
    /\ main.article = MaxArticles
    /\ pc = "done"
    /\ result = "success"


\* -------------------------------------------- claims about the backup file
\* the text has no line break
SingleLine(t) == \A i \in DOMAIN t : t[i] \notin {NL, CR}
\* p occurs in t
Occurs(p, t) == \E i \in 1..Len(t) : StartsWith(SubSeq(t, i, Len(t)), p)
\* the article read back is the article written, its body stripped
ReadsBack ==
    /\ backup.read.title = backup.article.title
    /\ backup.read.tags = backup.article.tags
    /\ backup.read.content = Strip(backup.article.content)

\* C39 as stated: for every article with a single-line title, non-empty
\* tags without a comma and an empty thumbnail prompt, the article read from
\* its backup file has the same title, the same tags in the same order and
\* the body with its leading and trailing white space removed.
C39_BackupRoundTrip ==
    (/\ backup.at = "parsed"
     /\ SingleLine(backup.article.title)
     /\ \A i \in DOMAIN backup.article.tags :
            /\ backup.article.tags[i] # <<>>
            /\ "," \notin Range(backup.article.tags[i])
     /\ backup.article.prompt = <<>>) => ReadsBack

\* C39, amended: the same, for articles whose title and tags also have no
\* leading or trailing white space, whose tags are single-line and do not
\* contain '**Tags:**', and whose body has no carriage return.
C39_BackupRoundTripTrimmed ==
    (/\ backup.at = "parsed"
     /\ SingleLine(backup.article.title)
     /\ Strip(backup.article.title) = backup.article.title
     /\ \A i \in DOMAIN backup.article.tags :
            /\ backup.article.tags[i] # <<>>
            /\ "," \notin Range(backup.article.tags[i])
            /\ SingleLine(backup.article.tags[i])
            /\ Strip(backup.article.tags[i]) = backup.article.tags[i]
            /\ ~Occurs(TagsLabel, backup.article.tags[i])
     /\ CR \notin Range(backup.article.content)
     /\ backup.article.prompt = <<>>) => ReadsBack
C39_Witness ==
    /\ backup.at = "parsed"
    /\ backup.article.title = <<"a">>
    /\ Len(backup.article.tags) = MaxTags
    /\ \A i \in DOMAIN backup.article.tags :
            backup.article.tags[i] \in {<<"a">>, <<"b", " ", "c">>}
    /\ backup.article.tags[MaxTags] = <<"b", " ", "c">>
    /\ backup.article.content = <<"a", NL>> \o Rule \o <<NL, "b">>
    /\ backup.article.prompt = <<>>
    /\ backup.read.content = backup.article.content

====
